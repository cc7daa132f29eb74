----------------------------- MODULE AnswerProofs -----------------------------
(***************************************************************************)
(* What a commit's caller is told, for every value of the constants: a     *)
(* commit reported as committed is committed, and one that was definitely  *)
(* rejected never commits, however late its COMMIT is applied.             *)
(*                                                                         *)
(* The first half is about one step of the machine (FrankSteps): what the  *)
(* record, the work in progress and the verdict that waits may say later   *)
(* (Honest), and for which reasons a step gives a definite answer.  The    *)
(* second half relates the answers to the caller who waits, to what is in  *)
(* flight and to the COMMIT that was sent (AnswerInv).                     *)
(***************************************************************************)
EXTENDS OwnerConnectionProofs

(***************************************************************************)
(* Honest states                                                           *)
(***************************************************************************)
CommitTasks == {"CommitBinding", "ValidatingPersist", "Validator", "Verdict",
                "CommitPersist", "CommitSend"}
OtherTasks == {"StatementBinding", "StatementExecute", "RollbackBinding",
               "RollbackSend"}
IsCommit(cmd) == cmd.kind = "commit" /\ cmd.pay = "none"

\* The record's last command is a commit exactly when the record is committed.
HonestRec(rec) ==
    IF rec.phase = "committed" THEN rec.last = [kind |-> "commit", pay |-> "none"]
    ELSE rec.last.kind # "commit"

\* What a work will answer: `committed` on a committed record alone, and a
\* definite rejection once the transaction has ended, or its COMMIT is unknown
\* and the command was another.
Telling == Definite \cup {"committed"}
HonestWork(rec, w) ==
    /\ w.task \in CommitTasks => IsCommit(w.cmd)
    /\ w.task \in OtherTasks => w.cmd.kind # "commit"
    /\ w.task = "CloseRollback" => w.reply # "committed"
    /\ w.task = "Reply" /\ w.expire_after =>
          /\ w.restore.auth = rec.auth /\ w.restore.last.kind # "commit"
          /\ w.reply \notin Telling /\ w.failure # "committed"
    /\ w.task = "Reply" /\ ~w.expire_after =>
          /\ "committed" \in {w.reply, w.failure} => rec.phase = "committed"
          /\ w.reply \in Definite => rec.phase \in Endings \cup {"commit_unknown"}
          /\ w.failure \in Definite => rec.phase = "commit_unknown"
HonestDeferred(w) == w.task # "none" => IsCommit(w.cmd)
Honest(x) ==
    HonestRec(x.rec) /\ HonestWork(x.rec, x.work) /\ HonestDeferred(x.deferred)

\* A persisted answer to a command that found the commit of another in doubt.
InDoubt(rec, w) == /\ w.task = "Reply" /\ rec.phase = "commit_unknown"
                   /\ w.reply \in Definite \/ w.failure \in Definite

(***************************************************************************)
(* Calm outputs: nothing definite is said; the record keeps its caller and *)
(* sequence; the work is the old one, none, or a new one that is honest    *)
(* and does the commit of one of cmds, if it does one.  n is the state the *)
(* operator starts from, p the one it leaves.                              *)
(***************************************************************************)
Ordinary(rec, w, cmds) ==
    /\ HonestWork(rec, w) /\ w.task # "BeginBinding" /\ ~InDoubt(rec, w)
    /\ w.task \in CommitTasks => w.cmd \in cmds
Near(n, p) == /\ p.rec.auth = n.rec.auth /\ p.rec.seq = n.rec.seq
              /\ p.deferred \in {n.deferred, NoWork} /\ HonestRec(p.rec)
              /\ p.rec.phase = "committed" => n.rec.phase = "committed"
Calm(n, h, cmds, o) ==
    \/ o.fault = TRUE
    \/ /\ o.client \notin Telling /\ o.reset = FALSE /\ Near(n, o.m)
       /\ \/ o.m.work = n.work /\ o.m.rec = n.rec
          \/ o.m.work = NoWork
          \/ o.m.work.id = h.id /\ Ordinary(o.m.rec, o.m.work, cmds)

\* What waiting for the effect of a work leaves.
LEMMA WaitLeaves ==
    ASSUME NEW p \in Machines, NEW h \in HostFacts, NEW w \in Works
    PROVE  LET o == Wait(p, h, w)
           IN  /\ o.m.rec = p.rec /\ o.m.deferred = p.deferred
               /\ o.m.work.id = h.id /\ o.m.work.task = w.task
               /\ o.m.work.cmd = w.cmd /\ o.m.work.expire_after = w.expire_after
               /\ o.m.work.restore = w.restore /\ o.m.work.reply = w.reply
               /\ o.m.work.failure = w.failure
               /\ o.client = "none" /\ o.reset = FALSE /\ o.fault = FALSE
               /\ o.await.type = AwaitedBy(w.task) /\ o.await.id = h.id
<1> DEFINE v == [w EXCEPT !.id = h.id]
           n == [p EXCEPT !.work = v]
           o == Wait(p, h, w)
<1>1. /\ o.m = n /\ o.m.rec = p.rec /\ o.m.deferred = p.deferred
      /\ o.await.type = AwaitedBy(w.task) /\ o.await.id = h.id
      /\ o.reset = FALSE /\ o.fault = FALSE
  BY WaitFacts
<1>2. o.client = "none" BY DEF Wait, Quiet
<1>3. /\ v.id = h.id /\ v.task = w.task /\ v.cmd = w.cmd
      /\ v.expire_after = w.expire_after /\ v.restore = w.restore
      /\ v.reply = w.reply /\ v.failure = w.failure
  BY DEF Works
<1> HIDE DEF v, o
<1>4. n.work = v BY DEF Machines
<1> HIDE DEF n
<1> QED BY <1>1, <1>2, <1>3, <1>4 DEF o

\* So it is calm for a work that is ordinary.
LEMMA WaitCalm ==
    ASSUME NEW n, NEW p \in Machines, NEW h \in HostFacts, NEW w \in Works,
           NEW cmds, Near(n, p), Ordinary(p.rec, w, cmds)
    PROVE  Calm(n, h, cmds, Wait(p, h, w))
<1> DEFINE o == Wait(p, h, w)
<1>1. /\ o.m.rec = p.rec /\ o.m.deferred = p.deferred
      /\ o.m.work.id = h.id /\ o.m.work.task = w.task
      /\ o.m.work.cmd = w.cmd /\ o.m.work.expire_after = w.expire_after
      /\ o.m.work.restore = w.restore /\ o.m.work.reply = w.reply
      /\ o.m.work.failure = w.failure
      /\ o.client = "none" /\ o.reset = FALSE
  BY WaitLeaves
<1> HIDE DEF o
<1>2. HonestWork(o.m.rec, o.m.work) BY <1>1 DEF Ordinary, HonestWork
<1>3. ~InDoubt(o.m.rec, o.m.work) BY <1>1 DEF Ordinary, InDoubt
<1>4. Ordinary(o.m.rec, o.m.work, cmds) BY <1>1, <1>2, <1>3 DEF Ordinary
<1>5. Near(n, o.m) BY <1>1 DEF Near
<1>6. "none" \notin Telling BY DEF Telling, Definite
<1>7. Calm(n, h, cmds, o) BY <1>1, <1>4, <1>5, <1>6 DEF Calm
<1> QED BY <1>7 DEF o

\* What built works answer.
LEMMA BuiltReplies ==
    /\ \A task, lane, cmd : /\ TaskWork(task, lane, cmd).reply = "none"
                            /\ TaskWork(task, lane, cmd).failure = "none"
    /\ \A lane, reply, failure :
          /\ ReplyWork(lane, reply, failure).reply = reply
          /\ ReplyWork(lane, reply, failure).failure = failure
BY DEF TaskWork, ReplyWork, NoWork

\* A lane goes on to a task, with or without a check.
LEMMA TaskCalm ==
    ASSUME NEW n, NEW p \in Machines, NEW h \in HostFacts, NEW task \in Tasks,
           NEW lane \in Lanes, NEW cmd \in Commands, NEW check \in Nat, NEW cmds,
           Near(n, p), task \notin {"Reply", "BeginBinding"},
           task \in CommitTasks => IsCommit(cmd) /\ cmd \in cmds,
           task \in OtherTasks => cmd.kind # "commit"
    PROVE  /\ Calm(n, h, cmds, Wait(p, h, TaskWork(task, lane, cmd)))
           /\ Calm(n, h, cmds, Wait(p, h, [TaskWork(task, lane, cmd) EXCEPT
                                               !.check = check]))
<1> DEFINE u == TaskWork(task, lane, cmd)
           v == [u EXCEPT !.check = check]
<1>1. u \in Works /\ u.task = task /\ u.cmd = cmd /\ u.reply = "none"
  BY TaskWorkType, BuiltFields, BuiltReplies
<1> HIDE DEF u
<1>2. v \in Works /\ v.task = task /\ v.cmd = cmd /\ v.reply = "none"
  BY <1>1 DEF Works
<1> HIDE DEF v
<1>3. \A w : w.task = task /\ w.cmd = cmd /\ w.reply = "none" =>
                Ordinary(p.rec, w, cmds)
  BY DEF Ordinary, HonestWork, InDoubt
<1>4. Ordinary(p.rec, u, cmds) /\ Ordinary(p.rec, v, cmds) BY <1>1, <1>2, <1>3
<1>5. Calm(n, h, cmds, Wait(p, h, u)) BY <1>1, <1>4, WaitCalm
<1>6. Calm(n, h, cmds, Wait(p, h, v)) BY <1>2, <1>4, WaitCalm
<1> QED BY <1>5, <1>6 DEF u, v

\* A lane answers after a persist: at the end of a transaction, or nothing
\* definite.
LEMMA AnswerCalm ==
    ASSUME NEW n, NEW p \in Machines, NEW h \in HostFacts, NEW lane \in Lanes,
           NEW reply \in Replies, NEW failure \in Replies, NEW cmds, Near(n, p),
           failure \notin Telling,
           reply \in Telling => reply # "committed" /\ p.rec.phase \in Endings
    PROVE  Calm(n, h, cmds, Wait(p, h, ReplyWork(lane, reply, failure)))
<1> DEFINE w == ReplyWork(lane, reply, failure)
<1>1. /\ w \in Works /\ w.task = "Reply" /\ w.expire_after = FALSE
      /\ w.reply = reply /\ w.failure = failure
  BY ReplyWorkType, BuiltFields, BuiltReplies
<1> HIDE DEF w
<1>2. HonestWork(p.rec, w) BY <1>1 DEF HonestWork, Telling, CommitTasks, OtherTasks
<1>3. ~InDoubt(p.rec, w) BY <1>1 DEF InDoubt, Telling, Endings
<1>4. Ordinary(p.rec, w, cmds) BY <1>1, <1>2, <1>3 DEF Ordinary, CommitTasks
<1>5. Calm(n, h, cmds, Wait(p, h, w)) BY <1>1, <1>4, WaitCalm
<1> QED BY <1>5 DEF w

\* Outputs without an effect, and faults.
LEMMA QuietCalm ==
    ASSUME NEW n, NEW p, NEW h, NEW cmds
    PROVE  /\ Near(n, p) /\ (p.work = NoWork \/ (p.work = n.work /\ p.rec = n.rec)) =>
                 Calm(n, h, cmds, Quiet(p))
           /\ Calm(n, h, cmds, Fault(p))
<1>1. /\ Quiet(p).m = p /\ Quiet(p).client = "none" /\ Quiet(p).reset = FALSE
      /\ Fault(p).fault = TRUE
  BY DEF Quiet, Fault
<1>2. "none" \notin Telling BY DEF Telling, Definite
<1> QED BY <1>1, <1>2 DEF Calm

\* A reply that is not definite, and a reply to a validator's query.
LEMMA RespondCalm ==
    ASSUME NEW n, NEW h, NEW cmds, NEW o \in Outputs, Calm(n, h, cmds, o)
    PROVE  /\ \A reply : reply \notin Telling => Calm(n, h, cmds, Respond(reply, o))
           /\ \A reply : Calm(n, h, cmds, RespondCallback(reply, o))
<1>1. \A reply : /\ Respond(reply, o).m = o.m /\ Respond(reply, o).reset = o.reset
                 /\ Respond(reply, o).fault = o.fault
                 /\ Respond(reply, o).client \in {reply, o.client}
                 /\ RespondCallback(reply, o).m = o.m
                 /\ RespondCallback(reply, o).reset = o.reset
                 /\ RespondCallback(reply, o).fault = o.fault
                 /\ RespondCallback(reply, o).client = o.client
  BY DEF Respond, RespondCallback, Outputs
<1> QED BY <1>1 DEF Calm

\* Only these parts of the state an operator starts from matter.
LEMMA CalmFrom ==
    ASSUME NEW n, NEW p, NEW h, NEW cmds, NEW o, Calm(p, h, cmds, o),
           p.rec.auth = n.rec.auth, p.rec.seq = n.rec.seq,
           p.deferred \in {n.deferred, NoWork},
           p.rec.phase = "committed" => n.rec.phase = "committed",
           p.work = NoWork \/ (p.work = n.work /\ p.rec = n.rec)
    PROVE  Calm(n, h, cmds, o)
BY DEF Calm, Near

\* The phase of a record that is not committed.
LEMMA PhaseHonest ==
    ASSUME NEW rec \in Records, NEW phase, HonestRec(rec),
           rec.phase # "committed", phase # "committed"
    PROVE  LET r == [rec EXCEPT !.phase = phase]
           IN  /\ HonestRec(r) /\ r.auth = rec.auth /\ r.seq = rec.seq
               /\ r.phase = phase
BY DEF HonestRec, Records

\* Setting such a phase stays near.
LEMMA SetPhaseNear ==
    ASSUME NEW n, NEW p \in Machines, Near(n, p), Live(p.rec),
           p.rec.phase # "committed", NEW phase \in Phases \ {"discarded", "committed"}
    PROVE  /\ SetPhase(p, phase) \in Machines /\ Near(n, SetPhase(p, phase))
           /\ SetPhase(p, phase).rec.phase = phase
           /\ SetPhase(p, phase).work = p.work
           /\ SetPhase(p, phase).callback = p.callback
<1> DEFINE q == SetPhase(p, phase)
<1>1. /\ q \in Machines /\ q.rec = [p.rec EXCEPT !.phase = phase]
      /\ q.work = p.work /\ q.deferred = p.deferred /\ q.callback = p.callback
  BY SetPhaseMoves
<1>2. p.rec \in Records /\ HonestRec(p.rec) BY MachineFields DEF Near
<1>3. /\ HonestRec(q.rec) /\ q.rec.auth = p.rec.auth /\ q.rec.seq = p.rec.seq
      /\ q.rec.phase = phase
  BY <1>1, <1>2, PhaseHonest
<1> HIDE DEF q
<1>4. Near(n, q) BY <1>1, <1>3 DEF Near
<1> QED BY <1>1, <1>3, <1>4 DEF q

\* Closing is calm: the end is persisted before it is told.
LEMMA CloseCalm ==
    ASSUME NEW n, NEW p \in Machines, NEW h \in HostFacts, NEW lane \in Lanes,
           NEW phase \in Endings, NEW reply \in Replies, NEW cmds, Near(n, p),
           Live(p.rec), p.rec.phase # "committed", reply # "committed"
    PROVE  Calm(n, h, cmds, Close(p, h, lane, phase, reply))
<1> DEFINE o == Close(p, h, lane, phase, reply)
           r == Revoke(p)
<1>0. phase \in Phases \ {"discarded", "committed"} BY DEF Endings, Phases, Terminal
<1>1. r \in Machines /\ r.rec = p.rec /\ r.deferred = p.deferred
  BY RevokeType, RevokeKeeps
<1> HIDE DEF r
<1>2. CASE CallbackExecuting(p) BY <1>2, QuietCalm DEF Close
<1>3. CASE ~CallbackExecuting(p) /\ p.conn = "open"
  <2> DEFINE u == TaskWork("CloseRollback", lane, NoCmd)
             w == [u EXCEPT !.phase = phase, !.reply = reply]
             q == [r EXCEPT !.conn = "closing"]
  <2>1. u \in Works /\ u.task = "CloseRollback"
    BY TaskWorkType, BuiltFields, EmptyTypes, Words
  <2> HIDE DEF u
  <2>2. w \in Works /\ w.task = "CloseRollback" /\ w.reply = reply
    BY <1>0, <2>1 DEF Works
  <2>3. q \in Machines /\ q.rec = p.rec /\ q.deferred = p.deferred
    BY <1>1, MachineUpdates, Words DEF Machines
  <2>4. o = Wait(q, h, w) BY <1>3 DEF Close, r, u
  <2> HIDE DEF q, w, o
  <2>5. Near(n, q) BY <2>3 DEF Near
  <2>6. Ordinary(q.rec, w, cmds)
    BY <2>2 DEF Ordinary, HonestWork, InDoubt, CommitTasks, OtherTasks
  <2>7. Calm(n, h, cmds, o) BY <2>2, <2>3, <2>4, <2>5, <2>6, WaitCalm
  <2> QED BY <2>7 DEF o
<1>4. CASE ~CallbackExecuting(p) /\ p.conn # "open"
  <2> DEFINE q == [r EXCEPT !.conn = "none"]
             s == SetPhase(q, phase)
             failure == IF reply = "none" THEN "none" ELSE "internal"
  <2>1. q \in Machines /\ q.rec = p.rec /\ q.deferred = p.deferred
    BY <1>1, MachineUpdates, Words DEF Machines
  <2>2. o = PersistPhase(q, h, lane, phase, reply) BY <1>4 DEF Close, r
  <2> HIDE DEF q, o
  <2>3. o = Wait(s, h, ReplyWork(lane, reply, failure))
    BY <2>1, <2>2 DEF PersistPhase, Live
  <2>4. failure \in Replies /\ failure \notin Telling
    BY Words DEF Telling, Definite
  <2>5. Near(n, q) BY <2>1 DEF Near
  <2>6. s \in Machines /\ Near(n, s) /\ s.rec.phase = phase
    BY <1>0, <2>1, <2>5, SetPhaseNear
  <2> HIDE DEF s, failure
  <2>7. Calm(n, h, cmds, o) BY <2>3, <2>4, <2>6, AnswerCalm
  <2> QED BY <2>7 DEF o
<1> QED BY <1>2, <1>3, <1>4

\* So are the other ways to close.
LEMMA ClosersCalm ==
    ASSUME NEW n, NEW p \in Machines, NEW h \in HostFacts, NEW cmds, Near(n, p),
           Live(p.rec), p.rec.phase # "committed"
    PROVE  /\ \A lane \in Lanes, phase \in Endings, reply \in Replies \ {"committed"} :
                 Calm(n, h, cmds, Close(p, h, lane, phase, reply))
           /\ \A lane \in Lanes : Calm(n, h, cmds, ExpireClient(p, h, lane))
           /\ \A w \in Works : \A result : Calm(n, h, cmds, BindingRefused(p, h, w, result))
<1>1. \A lane \in Lanes, phase \in Endings, reply \in Replies \ {"committed"} :
         Calm(n, h, cmds, Close(p, h, lane, phase, reply))
  BY CloseCalm
<1>2. {"expired", "failed"} \subseteq Endings BY DEF Endings
<1>3. {"unavailable", "binding_rejected", "database"} \subseteq Replies \ {"committed"}
  BY Words
<1>4. \A w \in Works : w.lane \in Lanes BY WorkFields
<1> QED BY <1>1, <1>2, <1>3, <1>4 DEF ExpireClient, BindingRefused

\* The checks after a binding check close, fault or go on.
LEMMA RecheckCalm ==
    ASSUME NEW n, NEW p \in Machines, NEW h \in HostFacts, NEW lane \in Lanes,
           NEW next, NEW cmds, Near(n, p), p.rec.phase # "committed",
           Live(p.rec) => Calm(n, h, cmds, next)
    PROVE  Calm(n, h, cmds, Recheck(p, h, lane, next))
<1>1. CASE ~Live(p.rec) BY <1>1, QuietCalm DEF Recheck
<1>2. CASE Live(p.rec)
  <2>1. "failed" \in Endings /\ "unavailable" \in Replies \ {"committed"}
    BY Words DEF Endings
  <2>2. /\ Calm(n, h, cmds, Close(p, h, lane, "failed", "unavailable"))
        /\ Calm(n, h, cmds, ExpireClient(p, h, lane))
    BY <1>2, <2>1, ClosersCalm
  <2> QED BY <1>2, <2>2 DEF Recheck
<1> QED BY <1>1, <1>2

(***************************************************************************)
(* Commit checks and validator callbacks are calm                          *)
(***************************************************************************)
\* A validator is asked for a check, or there is none to ask.
LEMMA IssueCalm ==
    ASSUME NEW n, NEW p \in Machines, NEW h \in HostFacts, NEW w \in Works, NEW cmds,
           Near(n, p), Live(p.rec), p.rec.phase # "committed",
           IsCommit(w.cmd), w.cmd \in cmds
    PROVE  Calm(n, h, cmds, Issue(p, h, w))
<1> DEFINE q == [p EXCEPT !.cap = [check |-> w.check, next |-> 1]]
<1>1. q \in Machines /\ q.rec = p.rec /\ q.deferred = p.deferred
  <2> DEFINE cap == [check |-> w.check, next |-> 1]
  <2>1. cap \in Capabilities BY WorkFields DEF Capabilities
  <2> HIDE DEF cap
  <2>2. [p EXCEPT !.cap = cap] \in Machines /\ [p EXCEPT !.cap = cap].rec = p.rec
        /\ [p EXCEPT !.cap = cap].deferred = p.deferred
    BY <2>1 DEF Machines
  <2> QED BY <2>2 DEF cap
<1>2. Near(n, q)
  <2> HIDE DEF q
  <2> QED BY <1>1 DEF Near
<1>3. Calm(n, h, cmds, Wait(q, h, [TaskWork("Validator", w.lane, w.cmd) EXCEPT
                                      !.check = w.check]))
  <2> HIDE DEF q
  <2> QED BY <1>1, <1>2, TaskCalm, WorkFields, Words DEF OtherTasks
<1>4. Calm(n, h, cmds, Close(p, h, w.lane, "failed", "check_rejected"))
  BY CloseCalm, WorkFields, Words DEF Endings
<1> QED BY <1>3, <1>4 DEF Issue

\* The commit's checks begin.
LEMMA StartChecksCalm ==
    ASSUME NEW n, NEW p \in Machines, NEW h \in HostFacts, NEW w \in Works, NEW cmds,
           Near(n, p), Live(p.rec), p.rec.phase # "committed",
           IsCommit(w.cmd), w.cmd \in cmds
    PROVE  Calm(n, h, cmds, StartChecks(p, h, w))
<1> DEFINE q == SetPhase(p, "validating")
<1>1. q \in Machines /\ Near(n, q)
  BY SetPhaseNear DEF Phases, HasDeadline
<1> HIDE DEF q
<1>2. Calm(n, h, cmds, Wait(q, h, [TaskWork("ValidatingPersist", w.lane, w.cmd) EXCEPT
                                      !.check = 1]))
  BY <1>1, TaskCalm, WorkFields, Words DEF OtherTasks
<1>3. Calm(n, h, cmds, Close(p, h, w.lane, "failed", "check_rejected"))
  BY CloseCalm, WorkFields, Words DEF Endings
<1>4. Calm(n, h, cmds, Fault(p)) BY QuietCalm
<1> QED BY <1>2, <1>3, <1>4 DEF StartChecks, q

\* A verdict leads to the next check, to the binding check or to the end.
LEMMA VerdictCalm ==
    ASSUME NEW n, NEW p \in Machines, NEW h \in HostFacts, NEW w \in Works, NEW allowed,
           NEW cmds, Near(n, p), Live(p.rec), p.rec.phase # "committed",
           IsCommit(w.cmd), w.cmd \in cmds
    PROVE  Calm(n, h, cmds, Verdict(p, h, w, allowed))
<1>1. Calm(n, h, cmds, Close(p, h, w.lane, "failed", "check_rejected"))
  BY CloseCalm, WorkFields, Words DEF Endings
<1>2. Calm(n, h, cmds, Issue(p, h, [w EXCEPT !.check = @ + 1]))
  <2> DEFINE v == [w EXCEPT !.check = @ + 1]
  <2>1. v \in Works /\ v.cmd = w.cmd BY DEF Works
  <2> HIDE DEF v
  <2>2. Calm(n, h, cmds, Issue(p, h, v)) BY <2>1, IssueCalm
  <2> QED BY <2>2 DEF v
<1>3. Calm(n, h, cmds, Wait(p, h, TaskWork("CommitBinding", w.lane, w.cmd)))
  BY TaskCalm, WorkFields, Words DEF OtherTasks
<1> QED BY <1>1, <1>2, <1>3 DEF Verdict

\* A query that fails its validation, and one that waits.
LEMMA FailValidationCalm ==
    ASSUME NEW n \in Machines, NEW h \in HostFacts, NEW reply \in Replies, NEW cmds,
           HonestRec(n.rec), n.work.task = "Validator" => n.rec.phase = "validating"
    PROVE  Calm(n, h, cmds, FailValidation(n, h, reply))
<1> DEFINE p == [n EXCEPT !.callback = NoCallback, !.cap = NoCap,
                          !.revoked = n.work.id, !.work = NoWork]
<1>1. p \in Machines /\ p.rec = n.rec /\ p.deferred = n.deferred
  BY MachineFields, WorkFields, EmptyTypes DEF Machines
<1> HIDE DEF p
<1>2. Near(n, p) BY <1>1 DEF Near
<1>3. CASE n.work.task = "Validator"
  <2>1. Live(p.rec) /\ p.rec.phase # "committed" BY <1>1, <1>3 DEF Live
  <2>2. /\ Close(p, h, "client", "failed", "check_rejected") \in Outputs
        /\ Calm(n, h, cmds, Close(p, h, "client", "failed", "check_rejected"))
    BY <1>1, <1>2, <2>1, CloseCalm, CloseType, Words DEF Endings, Phases, Terminal
  <2> QED BY <1>3, <2>2, RespondCalm DEF FailValidation, p
<1>4. CASE n.work.task # "Validator" BY <1>4, QuietCalm DEF FailValidation
<1> QED BY <1>3, <1>4

\* A query of the validation waits for its effect.
LEMMA WaitCallbackCalm ==
    ASSUME NEW n \in Machines, NEW h, NEW task, NEW q, NEW cmds, HonestRec(n.rec)
    PROVE  Calm(n, h, cmds, WaitCallback(n, h, task, q))
<1> DEFINE cb == [id |-> h.id, task |-> task, tok |-> q.tok, seq |-> q.seq]
           p == [n EXCEPT !.callback = cb]
           effect == [type |-> CallbackAwaits(task), id |-> h.id, arg |-> 0]
<1>1. p.work = n.work /\ p.rec = n.rec /\ p.deferred = n.deferred
  <2> HIDE DEF cb
  <2> QED BY DEF Machines
<1>2. WaitCallback(n, h, task, q) = [Quiet(p) EXCEPT !.await = effect]
  BY DEF WaitCallback
<1> HIDE DEF p, effect
<1>3. LET o == WaitCallback(n, h, task, q)
      IN  o.m = p /\ o.client = "none" /\ o.reset = FALSE
  BY <1>2 DEF Quiet
<1>4. "none" \notin Telling BY DEF Telling, Definite
<1> QED BY <1>1, <1>3, <1>4 DEF Calm, Near

\* What the callback lane needs of the state it starts from.
Steady(n, cmds) ==
    /\ HonestRec(n.rec)
    /\ n.work.task = "Validator" \/ HasDeferred(n) => n.rec.phase = "validating"
    /\ HasDeferred(n) => IsCommit(n.deferred.cmd) /\ n.deferred.cmd \in cmds
    /\ n.conn = "open" => n.rec.phase \in HasDeadline \cup {"expired"}

\* What waited for the query.
LEMMA AfterCallbackCalm ==
    ASSUME NEW n \in Machines, NEW h \in HostFacts, NEW cmds, Steady(n, cmds)
    PROVE  Calm(n, h, cmds, AfterCallback(n, h))
<1>1. CASE HasDeferred(n)
  <2> DEFINE p == [n EXCEPT !.deferred = NoWork]
  <2>1. p \in Machines /\ p.rec = n.rec /\ p.deferred = NoWork
    BY MachineUpdates DEF Machines
  <2> HIDE DEF p
  <2>2. Near(n, p) BY <2>1 DEF Near, Steady
  <2>3. Live(p.rec) /\ p.rec.phase # "committed" BY <1>1, <2>1 DEF Live, Steady
  <2>4. n.deferred \in Works BY MachineFields
  <2>5. Calm(n, h, cmds, Verdict(p, h, n.deferred, n.deferred.allowed))
    BY <1>1, <2>1, <2>2, <2>3, <2>4, VerdictCalm DEF Steady
  <2> QED BY <1>1, <2>5 DEF AfterCallback, p
<1>2. CASE ~HasDeferred(n)
  <2>1. Near(n, n) BY DEF Near, Steady
  <2>2. Calm(n, h, cmds, Quiet(n)) BY <2>1, QuietCalm
  <2>3. CASE n.conn = "open" /\ n.rec.phase \in Terminal
    <3>1. n.rec.phase = "expired" BY <2>3 DEF Steady, HasDeadline, Terminal
    <3>2. Live(n.rec) /\ n.rec.phase \in Endings /\ n.rec.phase # "committed"
      BY <3>1 DEF Live, Endings
    <3>3. Calm(n, h, cmds, Close(n, h, "background", n.rec.phase, "none"))
      BY <2>1, <3>2, CloseCalm, Words
    <3> QED BY <1>2, <2>2, <3>3 DEF AfterCallback
  <2>4. CASE ~(n.conn = "open" /\ n.rec.phase \in Terminal)
    BY <1>2, <2>2, <2>4 DEF AfterCallback
  <2> QED BY <2>3, <2>4
<1> QED BY <1>1, <1>2

\* A query that fails.
LEMMA CallbackFailedCalm ==
    ASSUME NEW n \in Machines, NEW h \in HostFacts, NEW live, NEW reply \in Replies,
           NEW cmds, Steady(n, cmds)
    PROVE  Calm(n, h, cmds, CallbackFailed(n, h, live, reply))
<1>1. Calm(n, h, cmds, FailValidation(n, h, reply))
  BY FailValidationCalm DEF Steady
<1>2. Calm(n, h, cmds, RespondCallback("unavailable", AfterCallback(n, h)))
  BY AfterCallbackCalm, AfterCallbackType, RespondCalm
<1> QED BY <1>1, <1>2 DEF CallbackFailed

\* A validator's query.
LEMMA CallbackQueryCalm ==
    ASSUME NEW n \in Machines, NEW h \in HostFacts, NEW q \in Commands, NEW cmds,
           Steady(n, cmds)
    PROVE  Calm(n, h, cmds, CallbackQuery(n, h, q))
<1>1. Near(n, n) BY DEF Near, Steady
<1>2. \A reply : Calm(n, h, cmds, RespondCallback(reply, Quiet(n)))
  BY <1>1, QuietCalm, QuietType, RespondCalm
<1>3. \A reply \in Replies : Calm(n, h, cmds, FailValidation(n, h, reply))
  BY FailValidationCalm DEF Steady
<1>4. Calm(n, h, cmds, WaitCallback(n, h, "Binding", q))
  BY WaitCallbackCalm DEF Steady
<1> QED BY <1>2, <1>3, <1>4, Words DEF CallbackQuery

\* The outcome of a query's effect.
LEMMA CallbackOutcomeCalm ==
    ASSUME NEW x \in Machines, NEW h \in HostFacts, NEW result, NEW cmds,
           Steady(x, cmds)
    PROVE  Calm(x, h, cmds, CallbackOutcome(x, h, result))
<1> DEFINE cb == x.callback
           n == [x EXCEPT !.callback = NoCallback]
           live == CapabilityLive(n) /\ n.cap.check = cb.tok
<1>1. /\ cb \in Callbacks /\ n \in Machines /\ n.work = x.work /\ n.rec = x.rec
      /\ n.deferred = x.deferred /\ n.conn = x.conn
  BY MachineFields, MachineUpdates DEF Machines
<1>2. CallbackOutcome(x, h, result) =
        IF cb.task = "Binding" THEN CallbackBinding(n, h, cb, live, result)
        ELSE CallbackExecuted(n, h, cb, live, result)
  BY DEF CallbackOutcome
<1> HIDE DEF cb, n, live
<1>3. Steady(n, cmds) BY <1>1 DEF Steady, HasDeferred
<1>4. Calm(n, h, cmds, RespondCallback("unavailable", AfterCallback(n, h)))
  BY <1>1, <1>3, AfterCallbackCalm, AfterCallbackType, RespondCalm
<1>5. \A reply \in Replies : /\ Calm(n, h, cmds, FailValidation(n, h, reply))
                             /\ Calm(n, h, cmds, CallbackFailed(n, h, live, reply))
  BY <1>1, <1>3, FailValidationCalm, CallbackFailedCalm DEF Steady
<1>6. Calm(n, h, cmds, WaitCallback(n, h, "Execute", cb))
  BY <1>1, <1>3, WaitCallbackCalm DEF Steady
<1>7. Calm(n, h, cmds, CallbackBinding(n, h, cb, live, result))
  BY <1>4, <1>5, <1>6, Words DEF CallbackBinding
<1>8. Calm(n, h, cmds, CallbackExecuted(n, h, cb, live, result))
  <2> DEFINE p == [n EXCEPT !.cap.next = cb.seq + 1]
  <2>1. /\ p \in Machines /\ p.work = n.work /\ p.rec = n.rec
        /\ p.deferred = n.deferred
    BY <1>1 DEF Machines, Capabilities, Callbacks
  <2> HIDE DEF p
  <2>2. Near(n, p) BY <1>3, <2>1 DEF Near, Steady
  <2>3. Calm(n, h, cmds, RespondCallback("result", Quiet(p)))
    BY <2>1, <2>2, QuietCalm, QuietType, RespondCalm
  <2> QED BY <1>4, <1>5, <2>3, Words DEF CallbackExecuted, p
<1>9. Calm(n, h, cmds, CallbackOutcome(x, h, result)) BY <1>2, <1>7, <1>8
<1> QED BY <1>1, <1>9, CalmFrom

(***************************************************************************)
(* Frank steps.  x is the state a step starts from, o its output.          *)
(***************************************************************************)
\* Where the commit that a work does comes from.
From(x, ev, cmd) ==
    \/ x.work.task \in CommitTasks /\ cmd = x.work.cmd
    \/ HasDeferred(x) /\ cmd = x.deferred.cmd
    \/ ev.type = "forwarded" /\ ev.cmd.kind = "commit" /\ cmd = ev.cmd

\* A commit that is refused as it comes: no record, another caller's, one whose
\* commit is another, or one on which no commit is in progress.
Refuses(x, cmd) ==
    /\ x.rec.phase # "discarded"
    /\ \/ x.rec.phase = "absent" \/ cmd.auth # x.rec.auth
       \/ /\ x.rec.phase \in {"committing", "commit_unknown"}
          /\ cmd.seq # x.rec.seq /\ x.work.lane # "client"
       \/ x.rec.phase = "committed" /\ (cmd.seq = 0 \/ cmd.seq + 1 # x.rec.seq)
       \/ /\ x.rec.phase \in {"active", "validating"} \cup Endings
          /\ x.work.lane # "client" /\ ~HasDeferred(x)

\* Why a step gives a definite rejection.
Stays(x, o) == /\ o.reset = FALSE /\ o.m.rec = x.rec
               /\ HasWork(o.m) => o.m.work = x.work
               /\ HasDeferred(o.m) => o.m.deferred = x.deferred
Reasons(x, ev, o) ==
    \/ ev.type = "forwarded" /\ ev.cmd.kind \notin {"commit", "query"}
    \/ /\ ev.type = "forwarded" /\ ev.cmd.kind = "commit"
       /\ Refuses(x, ev.cmd) /\ Stays(x, o)
    \/ /\ Answered(x, ev)
       /\ \/ x.work.task = "BeginBinding"
          \/ x.work.task = "Reply" /\ x.rec.phase \in Endings /\ ev.result = "ok"
          \/ InDoubt(x.rec, x.work)
    \/ x.rec.phase = "validating" /\ o.reset = FALSE /\ o.m.rec.phase = "expired"
FrankReply(x, ev, o) ==
    /\ o.client = "committed" => x.rec.phase = "committed"
    /\ o.client \in Definite => Reasons(x, ev, o)

\* What becomes of the record: its caller, and the sequence of its commit.
FrankRec(x, o) ==
    /\ HonestRec(o.m.rec)
    /\ x.rec.phase # "absent" => o.m.rec.auth = x.rec.auth
    /\ o.m.rec.phase \in {"committing", "commit_unknown"} => o.m.rec.seq = x.rec.seq
    /\ o.m.rec.phase = "committed" =>
          o.m.rec.seq = IF x.rec.phase = "committed" THEN x.rec.seq ELSE x.rec.seq + 1

\* What becomes of the work: the commit it does, and a begin or an answer in
\* doubt, which belong to the command that was forwarded.
Held(rec, w) == w.task = "BeginBinding" \/ InDoubt(rec, w)
FrankWork(x, h, ev, o) ==
    /\ HonestWork(o.m.rec, o.m.work) /\ HonestDeferred(o.m.deferred)
    /\ o.m.work.task \in CommitTasks => From(x, ev, o.m.work.cmd)
    /\ HasDeferred(o.m) => From(x, ev, o.m.deferred.cmd)
    /\ Held(o.m.rec, o.m.work) =>
          \/ /\ o.m.work = x.work /\ o.m.rec = x.rec
             /\ ~Answered(x, ev) /\ ev.type # "abandon"
          \/ /\ ev.type = "forwarded" /\ ev.cmd.kind # "query"
             /\ o.m.work.id = h.id /\ o.await.type = AwaitedBy(o.m.work.task)
             /\ ev.cmd.kind = "commit" =>
                   InDoubt(o.m.rec, o.m.work) /\ ev.cmd.seq # o.m.rec.seq

Frank(x, h, ev, o) ==
    \/ o.fault = TRUE
    \/ /\ FrankReply(x, ev, o)
       /\ o.reset = FALSE => FrankRec(x, o) /\ FrankWork(x, h, ev, o)

\* No work is honest, and holds nothing.
LEMMA NoWorkHonest ==
    /\ \A rec : HonestWork(rec, NoWork) /\ ~Held(rec, NoWork)
    /\ NoWork.task = "none" /\ HonestDeferred(NoWork)
BY DEF NoWork, HonestWork, Held, InDoubt, HonestDeferred, CommitTasks, OtherTasks

\* Calm outputs are frank.
LEMMA CalmFrank ==
    ASSUME NEW x, NEW n, NEW h, NEW ev, NEW o, NEW cmds,
           Honest(x), Calm(n, h, cmds, o),
           n.rec.auth = x.rec.auth \/ x.rec.phase = "absent",
           \/ n.rec.seq = x.rec.seq
           \/ o.m.rec.phase \notin {"committing", "commit_unknown", "committed"},
           n.rec.phase = "committed" => x.rec.phase = "committed",
           n.deferred \in {x.deferred, NoWork},
           \/ n.work = NoWork
           \/ /\ n.work = x.work /\ n.rec = x.rec
              /\ ~Answered(x, ev) /\ ev.type # "abandon",
           \A cmd \in cmds : From(x, ev, cmd)
    PROVE  Frank(x, h, ev, o)
<1> SUFFICES ASSUME o.fault # TRUE PROVE Frank(x, h, ev, o) BY DEF Frank
<1>1. /\ o.client \notin Telling /\ o.reset = FALSE /\ Near(n, o.m)
      /\ \/ o.m.work = n.work /\ o.m.rec = n.rec
         \/ o.m.work = NoWork
         \/ o.m.work.id = h.id /\ Ordinary(o.m.rec, o.m.work, cmds)
  BY DEF Calm
<1>2. FrankReply(x, ev, o) BY <1>1 DEF FrankReply, Telling
<1>3. FrankRec(x, o) BY <1>1 DEF FrankRec, Near
<1>4. HonestDeferred(o.m.deferred) /\ (HasDeferred(o.m) => From(x, ev, o.m.deferred.cmd))
  BY <1>1, NoWorkHonest DEF Near, Honest, HonestDeferred, HasDeferred, From
<1>5. CASE o.m.work = NoWork
  BY <1>2, <1>3, <1>4, <1>5, NoWorkHonest DEF Frank, FrankWork, CommitTasks
<1>6. CASE o.m.work = x.work /\ o.m.rec = x.rec /\ ~Answered(x, ev) /\ ev.type # "abandon"
  BY <1>2, <1>3, <1>4, <1>6 DEF Frank, FrankWork, Honest, From
<1>7. CASE o.m.work.id = h.id /\ Ordinary(o.m.rec, o.m.work, cmds)
  BY <1>2, <1>3, <1>4, <1>7 DEF Frank, FrankWork, Ordinary, Held
<1> QED BY <1>1, <1>5, <1>6, <1>7

(***************************************************************************)
(* The outcomes of a lane's work are frank.  n is x without the work that  *)
(* the event answered.                                                     *)
(***************************************************************************)
Doing(x) == IF x.work.task \in CommitTasks THEN {x.work.cmd} ELSE {}

\* What n is, and that calm outcomes are frank.
LEMMA TakenNear ==
    ASSUME NEW x, NEW n, Honest(x), Taken(x, n)
    PROVE  /\ Near(n, n) /\ n.rec = x.rec /\ n.conn = x.conn /\ n.work = NoWork
           /\ \A p : p.rec = n.rec /\ p.deferred = n.deferred => Near(n, p)
           /\ \A h, ev, o : Calm(n, h, Doing(x), o) => Frank(x, h, ev, o)
<1>1. /\ n.rec = x.rec /\ n.conn = x.conn /\ n.work = NoWork /\ n.deferred = x.deferred
  BY DEF Taken
<1>2. \A ev : \A cmd \in Doing(x) : From(x, ev, cmd) BY DEF Doing, From
<1>3. \A h, ev, o : Calm(n, h, Doing(x), o) => Frank(x, h, ev, o)
  BY <1>1, <1>2, CalmFrank
<1>4. \A p : p.rec = n.rec /\ p.deferred = n.deferred => Near(n, p)
  BY <1>1 DEF Near, Honest
<1> QED BY <1>1, <1>3, <1>4

\* The connection's state does not matter.
LEMMA ConnNear ==
    ASSUME NEW x, NEW n \in Machines, Honest(x), Taken(x, n), NEW conn \in Connections
    PROVE  LET p == [n EXCEPT !.conn = conn]
           IN  /\ p \in Machines /\ p.rec = n.rec /\ p.work = NoWork
               /\ p.deferred = n.deferred /\ Near(n, p)
<1> DEFINE p == [n EXCEPT !.conn = conn]
<1>1. p \in Machines /\ p.rec = n.rec /\ p.work = n.work /\ p.deferred = n.deferred
  BY MachineUpdates DEF Machines
<1> HIDE DEF p
<1>2. Near(n, p) /\ n.work = NoWork BY <1>1, TakenNear
<1> QED BY <1>1, <1>2 DEF p

\* A begin's binding check: whatever it answers is told to the begin.
LEMMA BeginBindingFrank ==
    ASSUME NEW x \in Machines, NEW n \in Machines, NEW h \in HostFacts, NEW ev,
           Honest(x), Taken(x, n), Answered(x, ev), x.work.task = "BeginBinding"
    PROVE  Frank(x, h, ev, BeginBinding(n, h, x.work, ev.result))
<1> DEFINE w == x.work
<1>0. w \in Works /\ w.cmd \in Commands BY MachineFields, WorkFields
<1>1. \A reply \in Replies \ {"committed"} : Frank(x, h, ev, Respond(reply, Quiet(n)))
  <2> TAKE reply \in Replies \ {"committed"}
  <2> DEFINE o == Respond(reply, Quiet(n))
  <2>1. /\ o.m = n /\ o.client \in {reply, "none"} /\ o.reset = FALSE
        /\ o.fault = FALSE
    BY DEF Respond, Quiet
  <2> HIDE DEF o
  <2>2. FrankReply(x, ev, o) BY <2>1 DEF FrankReply, Reasons, Definite
  <2>3. Calm(n, h, Doing(x), Quiet(n)) BY TakenNear, QuietCalm
  <2>4. Frank(x, h, ev, Quiet(n)) BY <2>3, TakenNear
  <2>5. Quiet(n).m = n /\ Quiet(n).fault = FALSE /\ Quiet(n).reset = FALSE
    BY DEF Quiet
  <2>6. /\ FrankRec(x, Quiet(n)) /\ FrankWork(x, h, ev, Quiet(n))
    BY <2>4, <2>5 DEF Frank
  <2>7. n.work = NoWork BY TakenNear
  <2>8. FrankRec(x, o) /\ FrankWork(x, h, ev, o)
    BY <2>1, <2>5, <2>6, <2>7, NoWorkHonest DEF FrankRec, FrankWork
  <2>9. Frank(x, h, ev, o) BY <2>2, <2>8 DEF Frank
  <2> QED BY <2>9 DEF o
<1>2. Frank(x, h, ev, Wait([n EXCEPT !.conn = "opening"], h,
                           TaskWork("BeginOpen", "client", w.cmd)))
  <2> DEFINE p == [n EXCEPT !.conn = "opening"]
  <2>1. p \in Machines /\ Near(n, p) BY ConnNear, Words
  <2> HIDE DEF p, w
  <2>2. Calm(n, h, Doing(x), Wait(p, h, TaskWork("BeginOpen", "client", w.cmd)))
    BY <1>0, <2>1, TaskCalm, Words DEF CommitTasks, OtherTasks
  <2>3. Frank(x, h, ev, Wait(p, h, TaskWork("BeginOpen", "client", w.cmd)))
    BY <2>2, TakenNear
  <2> QED BY <2>3 DEF p
<1>3. n.rec.phase = "active" =>
        Frank(x, h, ev, PersistReply(SetPhase(n, "failed"), h, "unavailable", "internal"))
  <2> HAVE n.rec.phase = "active"
  <2> DEFINE p == SetPhase(n, "failed")
  <2>1. p \in Machines /\ Near(n, p) /\ p.rec.phase = "failed"
    BY TakenNear, SetPhaseNear DEF Phases, Terminal, Live
  <2> HIDE DEF p
  <2>2. "internal" \notin Telling /\ "failed" \in Endings
    BY DEF Telling, Definite, Endings
  <2>3. Calm(n, h, Doing(x), Wait(p, h, ReplyWork("client", "unavailable", "internal")))
    BY <2>1, <2>2, AnswerCalm, Words
  <2> QED BY <2>3, TakenNear DEF PersistReply, p
<1>4. {"unavailable", "conflict", "state", "binding_rejected", "database"}
         \subseteq Replies \ {"committed"}
  BY Words
<1>5. Frank(x, h, ev, BeginChecked(n, h, w))
  BY <1>1, <1>2, <1>3, <1>4 DEF BeginChecked
<1> QED BY <1>1, <1>4, <1>5 DEF BeginBinding

\* The later steps of a begin.
LEMMA BeginLaterFrank ==
    ASSUME NEW x \in Machines, NEW n \in Machines, NEW h \in HostFacts, NEW ev,
           Orderly(x, h.snap), Honest(x), Taken(x, n)
    PROVE  /\ x.work.task = "BeginOpen" =>
                 Frank(x, h, ev, BeginOpen(n, h, x.work, ev.result))
           /\ x.work.task = "BeginPersist" =>
                 Frank(x, h, ev, BeginPersist(n, h, x.work, ev.result))
           /\ x.work.task = "BeginTimer" =>
                 Frank(x, h, ev, BeginTimer(n, h, x.work, ev.result))
<1> DEFINE w == x.work
<1>0. w \in Works /\ w.cmd \in Commands /\ w.lane \in Lanes BY MachineFields, WorkFields
<1>1. ASSUME w.task = "BeginOpen" PROVE Frank(x, h, ev, BeginOpen(n, h, w, ev.result))
  <2>0. x.rec.phase = "absent" BY <1>1 DEF Orderly, Fits
  <2>1. CASE ev.result = "ok"
    <3> DEFINE rec == [NoRec EXCEPT !.phase = "active", !.seq = 1,
                                    !.snap = w.cmd.snap, !.auth = w.cmd.auth]
               p == [n EXCEPT !.conn = "open", !.rec = rec]
               u == TaskWork("BeginPersist", w.lane, NoCmd)
               o == Wait(p, h, u)
    <3>1. rec \in Records /\ rec.phase = "active" /\ rec.last = NoDigest
      <4>1. w.cmd.snap \in SnapshotOrNone /\ w.cmd.auth \in PrincipalOrNone
        BY <1>0 DEF Commands
      <4> QED BY <4>1, EmptyTypes DEF NoRec, Records, Phases, HasDeadline
    <3> HIDE DEF rec
    <3>2. p \in Machines /\ p.rec = rec /\ p.deferred = n.deferred
      BY <3>1, Words DEF Machines
    <3>3. u \in Works BY <1>0, TaskWorkType, EmptyTypes, Words
    <3>4. BeginOpen(n, h, w, ev.result) = o BY <2>1 DEF BeginOpen, rec
    <3> HIDE DEF p
    <3>5. Near(p, p) BY <3>1, <3>2 DEF Near, HonestRec, NoDigest
    <3>6. Calm(p, h, Doing(x), o)
      BY <1>0, <3>2, <3>5, TaskCalm, EmptyTypes, Words DEF CommitTasks, OtherTasks
    <3> DEFINE q == [p EXCEPT !.work = NoWork]
    <3>7. o.m.rec = p.rec BY <3>2, <3>3, WaitLeaves
    <3>8. q.rec = p.rec /\ q.deferred = p.deferred /\ q.work = NoWork
      BY <3>2 DEF Machines
    <3> HIDE DEF o, q
    <3>9. p.work = NoWork /\ p.deferred = x.deferred
      <4>1. n.work = NoWork /\ n.deferred = x.deferred BY DEF Taken
      <4> QED BY <4>1, <3>2 DEF p, Machines
    <3>10. Frank(x, h, ev, o)
      <4>1. \A cmd \in Doing(x) : From(x, ev, cmd) BY DEF Doing, From
      <4> QED BY <2>0, <3>1, <3>2, <3>6, <3>7, <3>9, <4>1, CalmFrank
    <3> QED BY <3>4, <3>10
  <2>2. CASE ev.result # "ok"
    <3> DEFINE p == [n EXCEPT !.conn = "none"]
    <3>1. p \in Machines /\ p.rec = n.rec /\ p.work = NoWork /\ Near(n, p)
      BY ConnNear, Words
    <3> HIDE DEF p
    <3>2. "database" \notin Telling BY DEF Telling, Definite
    <3>3. Calm(n, h, Doing(x), Respond("database", Quiet(p)))
      BY <3>1, <3>2, QuietCalm, QuietType, RespondCalm
    <3> QED BY <2>2, <3>3, TakenNear DEF BeginOpen, p
  <2> QED BY <2>1, <2>2
<1>2. ASSUME w.task \in {"BeginPersist", "BeginTimer"}
      PROVE  /\ Frank(x, h, ev, BeginPersist(n, h, w, ev.result))
             /\ Frank(x, h, ev, BeginTimer(n, h, w, ev.result))
  <2>0. n.rec.phase = "active" BY <1>2, TakenNear DEF Orderly, Fits, At
  <2>1. Live(n.rec) /\ n.rec.phase # "committed" BY <2>0 DEF Live
  <2>2. /\ Calm(n, h, Doing(x), Close(n, h, w.lane, "failed", "internal"))
        /\ Calm(n, h, Doing(x), ExpireClient(n, h, w.lane))
    BY <1>0, <2>1, TakenNear, ClosersCalm, Words DEF Endings
  <2>3. Calm(n, h, Doing(x), Fault(n)) BY QuietCalm
  <2>4. Calm(n, h, Doing(x), Wait(n, h, TaskWork("BeginTimer", w.lane, NoCmd)))
    BY <1>0, TakenNear, TaskCalm, EmptyTypes, Words DEF CommitTasks, OtherTasks
  <2>5. Calm(n, h, Doing(x), Respond("state", Quiet(n)))
    <3>1. "state" \notin Telling BY DEF Telling, Definite
    <3> QED BY <3>1, TakenNear, QuietCalm, QuietType, RespondCalm
  <2>6. Calm(n, h, Doing(x), BeginPersist(n, h, w, ev.result))
    BY <2>2, <2>3, <2>4 DEF BeginPersist
  <2>7. Calm(n, h, Doing(x), BeginTimer(n, h, w, ev.result))
    BY <2>2, <2>3, <2>5 DEF BeginTimer
  <2> QED BY <2>6, <2>7, TakenNear
<1> QED BY <1>1, <1>2

\* A statement: what it records is no commit.
LEMMA StatementFrank ==
    ASSUME NEW x \in Machines, NEW n \in Machines, NEW h \in HostFacts, NEW ev,
           Orderly(x, h.snap), Honest(x), Taken(x, n)
    PROVE  /\ x.work.task = "StatementBinding" =>
                 Frank(x, h, ev, StatementBinding(n, h, x.work, ev.result))
           /\ x.work.task = "StatementExecute" =>
                 Frank(x, h, ev, StatementExecute(n, h, x.work, ev.result))
<1> DEFINE w == x.work
<1> SUFFICES ASSUME w.task \in {"StatementBinding", "StatementExecute"}
             PROVE  /\ Frank(x, h, ev, StatementBinding(n, h, w, ev.result))
                    /\ Frank(x, h, ev, StatementExecute(n, h, w, ev.result))
  OBVIOUS
<1>0. w \in Works /\ w.cmd \in Commands /\ w.lane \in Lanes BY MachineFields, WorkFields
<1>1. n.rec.phase = "active" BY TakenNear DEF Orderly, Fits, At
<1>2. Live(n.rec) /\ n.rec.phase # "committed" BY <1>1 DEF Live
<1>3. w.cmd.kind # "commit" BY DEF Honest, HonestWork, OtherTasks
<1>4. Frank(x, h, ev, StatementBinding(n, h, w, ev.result))
  <2> DEFINE v == [w EXCEPT !.task = "StatementExecute"]
  <2>1. v \in Works /\ v.task = "StatementExecute" /\ v.cmd = w.cmd
    BY <1>0, Words DEF Works
  <2> HIDE DEF v
  <2>2. Ordinary(n.rec, v, Doing(x))
    BY <1>3, <2>1 DEF Ordinary, HonestWork, InDoubt, CommitTasks
  <2>3. Calm(n, h, Doing(x), Wait(n, h, v)) BY <2>1, <2>2, WaitCalm, TakenNear
  <2>4. Calm(n, h, Doing(x), Recheck(n, h, w.lane, Wait(n, h, v)))
    BY <1>0, <1>2, <2>3, RecheckCalm, TakenNear
  <2>5. Calm(n, h, Doing(x), BindingRefused(n, h, w, ev.result))
    BY <1>0, <1>2, ClosersCalm, TakenNear
  <2> QED BY <2>4, <2>5, TakenNear DEF StatementBinding, v
<1>5. Frank(x, h, ev, StatementExecute(n, h, w, ev.result))
  <2> DEFINE c == [n EXCEPT !.conn = "open"]
             done == [c EXCEPT !.rec.seq = w.cmd.seq + 1,
                               !.rec.last = DigestOf(w.cmd),
                               !.rec.dirty = @ \/ w.cmd.pay = "write"]
             u == ReplyWork(w.lane, "result", "internal")
             v == [u EXCEPT !.expire_after = TRUE, !.restore = n.rec]
             o == Wait(done, h, v)
  <2>1. c \in Machines /\ c.rec = n.rec /\ Near(n, c) /\ c.deferred = n.deferred
        /\ c.work = NoWork
    BY ConnNear, Words
  <2>2. done \in Machines /\ v \in Works BY <1>0, StatementDoneType
  <2>3. /\ done.rec.phase = "active" /\ done.rec.auth = x.rec.auth
        /\ done.rec.last = DigestOf(w.cmd) /\ done.deferred = x.deferred
        /\ done.work = NoWork
    <3>1. c.rec.phase = "active" /\ c.rec.auth = x.rec.auth /\ c.deferred = x.deferred
      BY <1>1, <2>1 DEF Taken
    <3> HIDE DEF c
    <3> QED BY <2>1, <3>1 DEF Machines, Records
  <2>4. /\ v.task = "Reply" /\ v.expire_after = TRUE /\ v.restore = n.rec
        /\ v.reply = "result" /\ v.failure = "internal"
    <3>0. u \in Works BY <1>0, ReplyWorkType, Words
    <3>1. u.task = "Reply" /\ u.reply = "result" /\ u.failure = "internal"
      BY BuiltFields, BuiltReplies
    <3> HIDE DEF u
    <3> QED BY <3>0, <3>1 DEF Works
  <2>5. StatementExecute(n, h, w, ev.result) =
          IF c.rollback_requested THEN ExpireClient(c, h, w.lane)
          ELSE IF ev.result # "ok"
          THEN Close(c, h, w.lane, "failed",
                     IF ev.result = "refused" THEN "limit" ELSE "database")
          ELSE IF ~Live(c.rec) THEN Fault(n)
          ELSE o
    BY DEF StatementExecute
  <2>6. Frank(x, h, ev, o)
    <3> HIDE DEF done, v, c
    <3>1. DigestOf(w.cmd).kind = w.cmd.kind BY DEF DigestOf
    <3>2. Near(done, done) BY <1>3, <2>3, <3>1 DEF Near, HonestRec
    <3>3. n.rec.auth = x.rec.auth /\ n.rec.last.kind # "commit"
      BY <1>1, TakenNear DEF Honest, HonestRec
    <3>4. HonestWork(done.rec, v)
      BY <2>3, <2>4, <3>3 DEF HonestWork, CommitTasks, OtherTasks, Telling, Definite
    <3>5. Ordinary(done.rec, v, Doing(x))
      BY <2>3, <2>4, <3>4 DEF Ordinary, InDoubt, CommitTasks
    <3>6. Calm(done, h, Doing(x), o) BY <2>2, <3>2, <3>5, WaitCalm
    <3>7. o.m.rec = done.rec BY <2>2, WaitLeaves
    <3>8. \A cmd \in Doing(x) : From(x, ev, cmd) BY DEF Doing, From
    <3> HIDE DEF o
    <3> QED BY <2>3, <3>6, <3>7, <3>8, CalmFrank
  <2> HIDE DEF c, o, done
  <2>7. Live(c.rec) /\ c.rec.phase # "committed" BY <1>2, <2>1
  <2>8. /\ Calm(n, h, Doing(x), ExpireClient(c, h, w.lane))
        /\ \A reply \in Replies \ {"committed"} :
              Calm(n, h, Doing(x), Close(c, h, w.lane, "failed", reply))
    BY <1>0, <2>1, <2>7, ClosersCalm DEF Endings
  <2>9. {"limit", "database"} \subseteq Replies \ {"committed"} BY Words
  <2> QED BY <2>5, <2>6, <2>7, <2>8, <2>9, TakenNear
<1> QED BY <1>4, <1>5

\* What a state without work leaves with a reply, sent or reset.
LEMMA RespondFrank ==
    ASSUME NEW x, NEW n, NEW h, NEW ev, NEW reply, Honest(x), Taken(x, n),
           reply = "committed" => x.rec.phase = "committed",
           reply \in Definite =>
              /\ Answered(x, ev)
              /\ \/ x.work.task = "BeginBinding"
                 \/ x.work.task = "Reply" /\ x.rec.phase \in Endings /\ ev.result = "ok"
                 \/ InDoubt(x.rec, x.work)
    PROVE  /\ Frank(x, h, ev, Respond(reply, Quiet(n)))
           /\ Frank(x, h, ev, Reset(Respond(reply, Quiet(n))))
<1> DEFINE o == Respond(reply, Quiet(n))
           r == Reset(o)
<1>1. /\ o.m = n /\ o.client \in {reply, "none"} /\ o.reset = FALSE
      /\ o.fault = FALSE
  BY DEF Respond, Quiet
<1>2. r.client \in {reply, "none"} /\ r.reset = TRUE
  BY DEF Reset, Respond, Quiet
<1> HIDE DEF o, r
<1>3. n.rec = x.rec /\ n.work = NoWork /\ n.deferred = x.deferred BY DEF Taken
<1>4. FrankReply(x, ev, o) /\ FrankReply(x, ev, r)
  BY <1>1, <1>2 DEF FrankReply, Reasons, Definite
<1>5. FrankRec(x, o) BY <1>1, <1>3 DEF FrankRec, Honest
<1>6. FrankWork(x, h, ev, o)
  BY <1>1, <1>3, NoWorkHonest DEF FrankWork, Honest, From, HasDeferred, CommitTasks
<1>7. Frank(x, h, ev, o) /\ Frank(x, h, ev, r)
  BY <1>2, <1>4, <1>5, <1>6 DEF Frank
<1> QED BY <1>7 DEF o, r

\* A commit says nothing on its way to COMMIT.
LEMMA CommitFrank ==
    ASSUME NEW x \in Machines, NEW n \in Machines, NEW h \in HostFacts, NEW ev,
           Orderly(x, h.snap), Honest(x), Taken(x, n),
           x.work.task \in {"CommitBinding", "ValidatingPersist", "CommitPersist"}
    PROVE  /\ Frank(x, h, ev, CommitBinding(n, h, x.work, ev.result))
           /\ Frank(x, h, ev, ValidatingPersist(n, h, x.work, ev.result))
           /\ Frank(x, h, ev, CommitPersist(n, h, x.work, ev.result))
<1> DEFINE w == x.work
<1>0. w \in Works /\ w.cmd \in Commands /\ w.lane \in Lanes BY MachineFields, WorkFields
<1>1. n.rec.phase \in HasDeadline BY TakenNear DEF Orderly, Fits, At, HasDeadline
<1>2. Live(n.rec) /\ n.rec.phase # "committed" BY <1>1 DEF Live, HasDeadline
<1>3. IsCommit(w.cmd) /\ w.cmd \in Doing(x)
  BY DEF Honest, HonestWork, CommitTasks, Doing
<1>4. Near(n, n) BY TakenNear
<1>5. /\ \A phase \in Endings, reply \in Replies \ {"committed"} :
            Calm(n, h, Doing(x), Close(n, h, w.lane, phase, reply))
      /\ Calm(n, h, Doing(x), BindingRefused(n, h, w, ev.result))
  BY <1>0, <1>2, <1>4, ClosersCalm
<1>6. /\ {"internal", "check_rejected", "unavailable"} \subseteq Replies \ {"committed"}
      /\ {"failed", "expired"} \subseteq Endings
  BY Words DEF Endings
<1>7. Frank(x, h, ev, CommitBinding(n, h, w, ev.result))
  <2> DEFINE p == SetPhase(n, "committing")
             go == Wait(p, h, TaskWork("CommitPersist", w.lane, w.cmd))
             next == IF w.check = 1 THEN StartChecks(n, h, w) ELSE go
  <2>1. p \in Machines /\ Near(n, p) BY <1>2, <1>4, SetPhaseNear, Words DEF Terminal
  <2> HIDE DEF p
  <2>2. Calm(n, h, Doing(x), go)
    BY <1>0, <1>3, <2>1, TaskCalm, Words DEF OtherTasks
  <2>3. Calm(n, h, Doing(x), StartChecks(n, h, w))
    BY <1>0, <1>2, <1>3, <1>4, StartChecksCalm
  <2> HIDE DEF go
  <2>4. Calm(n, h, Doing(x), next) BY <2>2, <2>3
  <2> HIDE DEF next
  <2>5. Calm(n, h, Doing(x), Recheck(n, h, w.lane, next))
    BY <1>0, <1>2, <1>4, <2>4, RecheckCalm
  <2>6. CommitBinding(n, h, w, ev.result) =
          IF ev.result # "ok" THEN BindingRefused(n, h, w, ev.result)
          ELSE Recheck(n, h, w.lane, next)
    BY DEF CommitBinding, next, go, p
  <2> QED BY <1>5, <2>5, <2>6, TakenNear
<1>8. Frank(x, h, ev, ValidatingPersist(n, h, w, ev.result))
  <2>1. Calm(n, h, Doing(x), Issue(n, h, w))
    BY <1>0, <1>2, <1>3, <1>4, IssueCalm
  <2>2. Calm(n, h, Doing(x), ValidatingPersist(n, h, w, ev.result))
    BY <1>5, <1>6, <2>1 DEF ValidatingPersist
  <2> QED BY <2>2, TakenNear
<1>9. Frank(x, h, ev, CommitPersist(n, h, w, ev.result))
  <2> DEFINE c == [n EXCEPT !.conn = "closing"]
  <2>1. c \in Machines /\ Near(n, c) BY ConnNear, Words
  <2>2. Calm(n, h, Doing(x), Wait(c, h, TaskWork("CommitSend", w.lane, w.cmd)))
    <3> HIDE DEF c
    <3> QED BY <1>0, <1>3, <2>1, TaskCalm, Words DEF OtherTasks
  <2>3. Calm(n, h, Doing(x), CommitPersist(n, h, w, ev.result))
    BY <1>1, <1>5, <1>6, <2>2 DEF CommitPersist
  <2> QED BY <2>3, TakenNear
<1> QED BY <1>7, <1>8, <1>9

\* Nor does a verdict, at once or after the query that holds the connection.
LEMMA VerdictFrank ==
    ASSUME NEW x \in Machines, NEW n \in Machines, NEW h \in HostFacts, NEW ev, NEW allowed,
           Orderly(x, h.snap), Honest(x), Taken(x, n), x.work.task = "Validator"
    PROVE  Frank(x, h, ev, VerdictArrived(n, h, x.work, allowed))
<1> DEFINE w == x.work
           p == [n EXCEPT !.cap = NoCap]
           d == [w EXCEPT !.id = 0, !.task = "Verdict", !.allowed = allowed]
           q == [p EXCEPT !.deferred = d]
<1>0. w \in Works BY MachineFields
<1>1. n.rec.phase = "validating" BY TakenNear DEF Orderly, Fits, At
<1>2. Live(n.rec) /\ n.rec.phase # "committed" BY <1>1 DEF Live
<1>3. IsCommit(w.cmd) /\ w.cmd \in Doing(x)
  BY DEF Honest, HonestWork, CommitTasks, Doing
<1>4. p \in Machines /\ p.rec = n.rec /\ p.deferred = n.deferred /\ p.work = n.work
  BY EmptyTypes DEF Machines
<1>5. d.task = "Verdict" /\ d.cmd = w.cmd BY <1>0 DEF Works
<1> HIDE DEF p, d
<1>6. q.rec = n.rec /\ q.work = NoWork /\ q.deferred = d
  BY <1>4, TakenNear DEF Machines
<1> HIDE DEF q
<1>7. Frank(x, h, ev, Quiet(q))
  <2> DEFINE o == Quiet(q)
  <2>1. /\ o.m = q /\ o.client = "none" /\ o.reset = FALSE BY DEF Quiet
  <2> HIDE DEF o
  <2>2. q.rec = x.rec BY <1>6, TakenNear
  <2>3. FrankReply(x, ev, o) BY <2>1 DEF FrankReply, Definite
  <2>4. FrankRec(x, o) BY <2>1, <2>2 DEF FrankRec, Honest
  <2>5. FrankWork(x, h, ev, o)
    BY <1>3, <1>5, <1>6, <2>1, NoWorkHonest
    DEF FrankWork, HonestDeferred, From, CommitTasks
  <2>6. Frank(x, h, ev, o) BY <2>3, <2>4, <2>5 DEF Frank
  <2> QED BY <2>6 DEF o
<1>8. Frank(x, h, ev, Verdict(p, h, w, allowed))
  <2>1. Near(n, p) BY <1>4, TakenNear
  <2>2. Calm(n, h, Doing(x), Verdict(p, h, w, allowed))
    BY <1>0, <1>2, <1>3, <1>4, <2>1, VerdictCalm
  <2> QED BY <2>2, TakenNear
<1>9. VerdictArrived(n, h, w, allowed) =
        IF CallbackExecuting(p) THEN Quiet(q) ELSE Verdict(p, h, w, allowed)
  BY DEF VerdictArrived, p, q, d
<1> QED BY <1>7, <1>8, <1>9

\* The fields of a final record.
LEMMA FinalFields ==
    ASSUME NEW rec \in Records, NEW cmd, NEW phase
    PROVE  LET r == FinalRecord(rec, cmd, phase)
           IN  /\ r.phase = phase /\ r.seq = rec.seq + 1 /\ r.auth = rec.auth
               /\ r.last = DigestOf(cmd)
BY DEF FinalRecord, Records

\* The outcome of COMMIT is recorded before it is told.
LEMMA CommitSendFrank ==
    ASSUME NEW x \in Machines, NEW n \in Machines, NEW h \in HostFacts, NEW ev,
           Orderly(x, h.snap), Honest(x), Taken(x, n), x.work.task = "CommitSend"
    PROVE  Frank(x, h, ev, CommitSend(n, h, x.work, ev.result))
<1> DEFINE w == x.work
           c == [n EXCEPT !.conn = "none"]
<1>0. w \in Works /\ w.cmd \in Commands /\ w.lane \in Lanes BY MachineFields, WorkFields
<1>1. n.rec.phase = "committing" /\ n.rec = x.rec BY TakenNear DEF Orderly, Fits, At
<1>2. IsCommit(w.cmd) BY DEF Honest, HonestWork, CommitTasks
<1>3. /\ c \in Machines /\ c.rec = n.rec /\ c.work = NoWork /\ Near(n, c)
      /\ c.deferred = n.deferred
  BY ConnNear, Words
<1> HIDE DEF c
<1>4. Live(c.rec) /\ c.rec.phase # "committed" BY <1>1, <1>3 DEF Live
<1>5. Frank(x, h, ev, Wait(Complete(c, "committed", w.cmd), h,
                           ReplyWork(w.lane, "committed", "committed")))
  <2> DEFINE q == Complete(c, "committed", w.cmd)
             u == ReplyWork(w.lane, "committed", "committed")
             o == Wait(q, h, u)
  <2>1. /\ q \in Machines /\ q.rec = FinalRecord(c.rec, w.cmd, "committed")
        /\ q.deferred = c.deferred
    BY <1>0, <1>3, <1>4, CompleteMoves
  <2>2. c.rec \in Records BY <1>3, MachineFields
  <2>3. /\ q.rec.phase = "committed" /\ q.rec.seq = x.rec.seq + 1
        /\ q.rec.auth = x.rec.auth /\ q.rec.last = DigestOf(w.cmd)
    BY <1>1, <1>3, <2>1, <2>2, FinalFields
  <2>4. /\ u.task = "Reply" /\ u.reply = "committed" /\ u.failure = "committed"
        /\ u.expire_after = FALSE
    BY BuiltFields, BuiltReplies
  <2>5. u \in Works BY <1>0, ReplyWorkType, Words
  <2> HIDE DEF q, u
  <2>6. /\ o.m.rec = q.rec /\ o.m.deferred = q.deferred /\ o.m.work.task = "Reply"
        /\ o.m.work.reply = "committed" /\ o.m.work.failure = "committed"
        /\ o.m.work.expire_after = FALSE /\ o.client = "none" /\ o.reset = FALSE
    BY <2>1, <2>4, <2>5, WaitLeaves
  <2> HIDE DEF o
  <2>7. FrankReply(x, ev, o) BY <2>6 DEF FrankReply, Definite
  <2>8. FrankRec(x, o)
    BY <1>1, <1>2, <2>3, <2>6 DEF FrankRec, HonestRec, DigestOf, IsCommit
  <2>9. HonestWork(o.m.rec, o.m.work) /\ ~Held(o.m.rec, o.m.work)
    BY <2>3, <2>6 DEF HonestWork, Held, InDoubt, CommitTasks, OtherTasks, Definite
  <2>10. o.m.deferred = x.deferred BY <1>3, <2>1, <2>6 DEF Taken
  <2>11. FrankWork(x, h, ev, o)
    BY <2>6, <2>9, <2>10 DEF FrankWork, CommitTasks, Honest, From, HasDeferred
  <2>12. Frank(x, h, ev, o) BY <2>7, <2>8, <2>11 DEF Frank
  <2> QED BY <2>12 DEF o, q, u
<1>6. Calm(n, h, Doing(x), Close(c, h, w.lane, "failed", "unavailable"))
  BY <1>0, <1>3, <1>4, CloseCalm, Words DEF Endings
<1>7. Calm(n, h, Doing(x), Wait(SetPhase(c, "commit_unknown"), h,
                                ReplyWork(w.lane, "outcome_unknown", "outcome_unknown")))
  <2> DEFINE p == SetPhase(c, "commit_unknown")
  <2>1. p \in Machines /\ Near(n, p) BY <1>3, <1>4, SetPhaseNear, Words DEF Terminal
  <2> HIDE DEF p
  <2>2. "outcome_unknown" \notin Telling BY DEF Telling, Definite
  <2>3. Calm(n, h, Doing(x), Wait(p, h, ReplyWork(w.lane, "outcome_unknown", "outcome_unknown")))
    BY <1>0, <2>1, <2>2, AnswerCalm, Words
  <2> QED BY <2>3 DEF p
<1>8. CommitSend(n, h, w, ev.result) =
        CASE ev.result = "ok" ->
               IF ~Live(c.rec) THEN Fault(n)
               ELSE Wait(Complete(c, "committed", w.cmd), h,
                         ReplyWork(w.lane, "committed", "committed"))
          [] ev.result = "not_committed" ->
               Close(c, h, w.lane, "failed", "unavailable")
          [] OTHER ->
               Wait(SetPhase(c, "commit_unknown"), h,
                    ReplyWork(w.lane, "outcome_unknown", "outcome_unknown"))
  BY DEF CommitSend, c
<1> QED BY <1>4, <1>5, <1>6, <1>7, <1>8, TakenNear

\* A rollback, of the client or to close.
LEMMA RollbackFrank ==
    ASSUME NEW x \in Machines, NEW n \in Machines, NEW h \in HostFacts, NEW ev,
           Orderly(x, h.snap), Honest(x), Taken(x, n)
    PROVE  /\ x.work.task = "RollbackBinding" =>
                 Frank(x, h, ev, RollbackBinding(n, h, x.work, ev.result))
           /\ x.work.task = "RollbackSend" => Frank(x, h, ev, RollbackSend(n, h, x.work))
           /\ x.work.task = "CloseRollback" => Frank(x, h, ev, CloseRollback(n, h, x.work))
<1> DEFINE w == x.work
<1>0. w \in Works /\ w.cmd \in Commands /\ w.lane \in Lanes BY MachineFields, WorkFields
<1>1. ASSUME w.task = "RollbackBinding"
      PROVE  Frank(x, h, ev, RollbackBinding(n, h, w, ev.result))
  <2> DEFINE c == [n EXCEPT !.conn = "closing"]
             go == Wait(c, h, TaskWork("RollbackSend", w.lane, w.cmd))
  <2>1. n.rec.phase = "active" /\ w.cmd.kind # "commit"
    BY <1>1, TakenNear DEF Orderly, Fits, At, Honest, HonestWork, OtherTasks
  <2>2. Live(n.rec) /\ n.rec.phase # "committed" BY <2>1 DEF Live
  <2>3. c \in Machines /\ Near(n, c) BY ConnNear, Words
  <2> HIDE DEF c
  <2>4. Calm(n, h, Doing(x), go) BY <1>0, <2>1, <2>3, TaskCalm, Words DEF CommitTasks
  <2> HIDE DEF go
  <2>5. Calm(n, h, Doing(x), Recheck(n, h, w.lane, go))
    BY <1>0, <2>2, <2>4, RecheckCalm, TakenNear
  <2>6. Calm(n, h, Doing(x), BindingRefused(n, h, w, ev.result))
    BY <1>0, <2>2, ClosersCalm, TakenNear
  <2>7. RollbackBinding(n, h, w, ev.result) =
          IF ev.result # "ok" THEN BindingRefused(n, h, w, ev.result)
          ELSE Recheck(n, h, w.lane, go)
    BY DEF RollbackBinding, go, c
  <2> QED BY <2>5, <2>6, <2>7, TakenNear
<1> DEFINE c == [n EXCEPT !.conn = "none"]
<1>2. /\ c \in Machines /\ c.rec = n.rec /\ c.work = NoWork /\ Near(n, c)
      /\ c.deferred = n.deferred
  BY ConnNear, Words
<1> HIDE DEF c
<1>3. ASSUME w.task = "RollbackSend" PROVE Frank(x, h, ev, RollbackSend(n, h, w))
  <2> DEFINE q == Complete(c, "rolled_back", w.cmd)
             o == Wait(q, h, ReplyWork(w.lane, "rolled_back", "internal"))
  <2>1. n.rec.phase = "active" /\ w.cmd.kind # "commit" /\ n.rec = x.rec
    BY <1>3, TakenNear DEF Orderly, Fits, At, Honest, HonestWork, OtherTasks
  <2>2. Live(c.rec) BY <1>2, <2>1 DEF Live
  <2>3. /\ q \in Machines /\ q.rec = FinalRecord(c.rec, w.cmd, "rolled_back")
        /\ q.deferred = c.deferred /\ q.work = c.work
    BY <1>0, <1>2, <2>2, CompleteMoves
  <2>4. c.rec \in Records BY <1>2, MachineFields
  <2>5. /\ q.rec.phase = "rolled_back" /\ q.rec.auth = x.rec.auth
        /\ q.rec.last = DigestOf(w.cmd)
    BY <1>2, <2>1, <2>3, <2>4, FinalFields
  <2> HIDE DEF q
  <2>6. Near(q, q) BY <2>1, <2>5 DEF Near, HonestRec, DigestOf
  <2>7. "internal" \notin Telling /\ "rolled_back" \notin Telling BY DEF Telling, Definite
  <2>8. Calm(q, h, Doing(x), o) BY <1>0, <2>3, <2>6, <2>7, AnswerCalm, Words
  <2>9. o.m.rec = q.rec
    <3>1. ReplyWork(w.lane, "rolled_back", "internal") \in Works
      BY <1>0, ReplyWorkType, Words
    <3> QED BY <2>3, <3>1, WaitLeaves
  <2>10. q.deferred = x.deferred /\ q.work = NoWork BY <1>2, <2>3 DEF Taken
  <2>11. \A cmd \in Doing(x) : From(x, ev, cmd) BY DEF Doing, From
  <2>12. RollbackSend(n, h, w) = o BY <2>2 DEF RollbackSend, o, q, c
  <2> HIDE DEF o
  <2>13. Frank(x, h, ev, o)
    BY <2>5, <2>8, <2>9, <2>10, <2>11, CalmFrank
  <2> QED BY <2>12, <2>13
<1>4. ASSUME w.task = "CloseRollback" PROVE Frank(x, h, ev, CloseRollback(n, h, w))
  <2>1. /\ c.rec.phase \in HasDeadline \cup Endings /\ w.phase \in Endings
        /\ w.reply # "committed"
    BY <1>2, <1>4, TakenNear DEF Orderly, Fits, At, Honest, HonestWork
  <2>2. Live(c.rec) /\ c.rec.phase \notin {"committed", "absent"}
    BY <2>1 DEF Live, HasDeadline, Endings
  <2>3. w.phase \in Phases \ {"discarded", "committed"}
    BY <2>1, Words DEF Endings
  <2> DEFINE p == SetPhase(c, w.phase)
  <2>4. p \in Machines /\ Near(n, p) /\ p.rec.phase = w.phase
    BY <1>2, <2>2, <2>3, SetPhaseNear
  <2> HIDE DEF p
  <2> DEFINE failure == IF w.reply = "none" THEN "none" ELSE "internal"
  <2>5. failure \in Replies /\ failure \notin Telling
    BY Words DEF Telling, Definite
  <2>6. w.reply \in Replies BY <1>0, WorkFields
  <2> HIDE DEF failure
  <2>7. Calm(n, h, Doing(x), Wait(p, h, ReplyWork(w.lane, w.reply, failure)))
    BY <1>0, <2>1, <2>4, <2>5, <2>6, AnswerCalm
  <2>8. CloseRollback(n, h, w) = Wait(p, h, ReplyWork(w.lane, w.reply, failure))
    BY <2>2 DEF CloseRollback, PersistPhase, p, failure, c
  <2> QED BY <2>7, <2>8, TakenNear
<1> QED BY <1>1, <1>3, <1>4

\* The answer after a persist: what the work promised, and no more.
LEMMA ReplyFrank ==
    ASSUME NEW x \in Machines, NEW n \in Machines, NEW h \in HostFacts, NEW ev,
           Orderly(x, h.snap), Honest(x), Taken(x, n), Answered(x, ev),
           x.work.task = "Reply"
    PROVE  Frank(x, h, ev, Reply(n, h, x.work, ev.result))
<1> DEFINE w == x.work
<1>0. /\ w \in Works /\ w.cmd \in Commands /\ w.lane \in Lanes /\ w.reply \in Replies
      /\ w.failure \in Replies /\ w.restore \in Records
  BY MachineFields, WorkFields DEF Works
<1>1. CASE w.expire_after
  <2>1. /\ n.rec.phase = "active" /\ w.restore.phase = "active"
        /\ w.restore.auth = x.rec.auth /\ w.restore.last.kind # "commit"
        /\ w.reply \notin Telling /\ w.failure # "committed"
    BY <1>1, TakenNear DEF Orderly, Fits, At, Honest, HonestWork
  <2>2. Live(n.rec) /\ n.rec.phase # "committed" BY <2>1 DEF Live
  <2>3. CASE ev.result = "ok"
    <3> DEFINE inner == IF n.rollback_requested
                        THEN Close(n, h, "background", "expired", "none")
                        ELSE Quiet(n)
    <3>1. /\ Calm(n, h, Doing(x), Close(n, h, "background", "expired", "none"))
          /\ Close(n, h, "background", "expired", "none") \in Outputs
      BY <2>2, CloseCalm, CloseType, TakenNear, Words DEF Endings
    <3>2. Calm(n, h, Doing(x), Quiet(n)) /\ Quiet(n) \in Outputs
      BY QuietCalm, QuietType, TakenNear
    <3>3. Calm(n, h, Doing(x), inner) /\ inner \in Outputs BY <3>1, <3>2
    <3> HIDE DEF inner
    <3>4. Calm(n, h, Doing(x), Respond(w.reply, inner)) BY <2>1, <3>3, RespondCalm
    <3>5. Reply(n, h, w, ev.result) = Respond(w.reply, inner)
      BY <1>1, <2>3 DEF Reply, inner
    <3> QED BY <3>4, <3>5, TakenNear
  <2>4. CASE ev.result # "ok"
    <3> DEFINE p == [n EXCEPT !.rec = w.restore]
               o == Close(p, h, w.lane, "failed", w.failure)
    <3>1. /\ p \in Machines /\ p.rec = w.restore /\ p.work = NoWork
          /\ p.deferred = x.deferred
      BY <1>0 DEF Machines, Taken
    <3> HIDE DEF p
    <3>2. Near(p, p) /\ Live(p.rec) /\ p.rec.phase # "committed"
      BY <2>1, <3>1 DEF Near, HonestRec, Live
    <3>3. Calm(p, h, Doing(x), o)
      BY <1>0, <2>1, <3>1, <3>2, CloseCalm DEF Endings
    <3>4. o.fault = TRUE \/ o.m.rec.phase \in {"active", "failed"}
      <4>1. o.fault = TRUE \/ Closes(p, h, o, "failed")
        BY <1>0, <3>1, <3>2, CloseMoves DEF Endings
      <4> HIDE DEF o
      <4>2. [p.rec EXCEPT !.phase = "failed"].phase = "failed"
        BY <1>0, <3>1, RecordFields
      <4> QED BY <2>1, <3>1, <4>1, <4>2 DEF Closes, Keeps, Phased
    <3>5. \A cmd \in Doing(x) : From(x, ev, cmd) BY DEF Doing, From
    <3>6. Reply(n, h, w, ev.result) = o BY <1>1, <2>4 DEF Reply, o, p
    <3> HIDE DEF o
    <3>7. CASE o.fault = TRUE BY <3>6, <3>7 DEF Frank
    <3>8. CASE o.m.rec.phase \in {"active", "failed"}
      <4>1. Frank(x, h, ev, o)
        BY <2>1, <3>1, <3>3, <3>5, <3>8, CalmFrank
      <4> QED BY <3>6, <4>1
    <3> QED BY <3>4, <3>7, <3>8
  <2> QED BY <2>3, <2>4
<1>2. CASE ~w.expire_after
  <2>1. /\ "committed" \in {w.reply, w.failure} => x.rec.phase = "committed"
        /\ w.reply \in Definite => x.rec.phase \in Endings \cup {"commit_unknown"}
        /\ w.failure \in Definite => x.rec.phase = "commit_unknown"
    BY <1>2 DEF Honest, HonestWork
  <2>2. /\ ev.result = "ok" => Frank(x, h, ev, Respond(w.reply, Quiet(n)))
        /\ Frank(x, h, ev, Reset(Respond(w.failure, Quiet(n))))
    BY <2>1, RespondFrank DEF InDoubt
  <2>3. Reply(n, h, w, ev.result) = IF ev.result = "ok" THEN Respond(w.reply, Quiet(n))
                                    ELSE Reset(Respond(w.failure, Quiet(n)))
    BY <1>2 DEF Reply
  <2> QED BY <2>2, <2>3
<1> QED BY <1>1, <1>2

\* Every outcome of a lane's own work is frank.
LEMMA ConsumeFrank ==
    ASSUME NEW x \in Machines, NEW h \in HostFacts, NEW ev,
           Orderly(x, h.snap), Honest(x), Answered(x, ev)
    PROVE  Frank(x, h, ev, Consume([x EXCEPT !.work = NoWork], h, x.work, ev.result))
<1> DEFINE n == [x EXCEPT !.work = NoWork]
           w == x.work
<1>1. n \in Machines /\ Taken(x, n) BY EmptyTypes DEF Machines, Taken
<1> HIDE DEF n
<1>2. Frank(x, h, ev, Fault(n))
  <2>1. Calm(n, h, Doing(x), Fault(n)) BY QuietCalm
  <2> QED BY <1>1, <2>1, TakenNear
<1>3. w.task = "ResetAfterPersist" => Frank(x, h, ev, Reset(Quiet(n)))
  <2>1. Reset(Quiet(n)) = Reset(Respond("none", Quiet(n))) BY DEF Respond
  <2> QED BY <1>1, <2>1, RespondFrank DEF Definite
<1>4. w.task \in BeginTasks =>
        Frank(x, h, ev, Consume(n, h, w, ev.result))
  BY <1>1, BeginBindingFrank, BeginLaterFrank DEF Consume, BeginTasks
<1>5. w.task \in {"StatementBinding", "StatementExecute", "RollbackBinding",
                  "RollbackSend", "CloseRollback", "Reply"} =>
        Frank(x, h, ev, Consume(n, h, w, ev.result))
  BY <1>1, StatementFrank, RollbackFrank, ReplyFrank DEF Consume
<1>6. w.task \in {"CommitBinding", "ValidatingPersist", "Validator", "CommitPersist",
                  "CommitSend"} => Frank(x, h, ev, Consume(n, h, w, ev.result))
  BY <1>1, CommitFrank, VerdictFrank, CommitSendFrank DEF Consume
<1>7. Frank(x, h, ev, Consume(n, h, w, ev.result))
  <2>1. CASE w.task \in BeginTasks BY <1>4, <2>1
  <2>2. CASE w.task \in {"StatementBinding", "StatementExecute", "RollbackBinding",
                  "RollbackSend", "CloseRollback", "Reply"} BY <1>5, <2>2
  <2>3. CASE w.task \in {"CommitBinding", "ValidatingPersist", "Validator",
                         "CommitPersist", "CommitSend"} BY <1>6, <2>3
  <2>4. CASE w.task = "ResetAfterPersist" BY <1>3, <2>4 DEF Consume
  <2>5. CASE w.task \in {"none", "Verdict"} BY <1>2, <2>5 DEF Consume
  <2>6. w.task \in Tasks BY MachineFields, WorkFields DEF Works
  <2> QED BY <2>1, <2>2, <2>3, <2>4, <2>5, <2>6 DEF Tasks, BeginTasks
<1> QED BY <1>7 DEF n

(***************************************************************************)
(* The timer                                                               *)
(***************************************************************************)
\* A validation that expires rejects its commit, once its phase is expired.
LEMMA ExpireValidatingFrank ==
    ASSUME NEW x \in Machines, NEW h \in HostFacts, NEW ev, Honest(x),
           x.rec.phase = "validating", Consistent(x), Orderly(x, h.snap),
           x.work.task = "Validator" \/ HasDeferred(x)
    PROVE  Frank(x, h, ev, ExpireValidating(x, h))
<1> DEFINE e == IF HasWork(x)
                THEN [x EXCEPT !.cap = NoCap, !.revoked = x.work.id, !.work = NoWork]
                ELSE [x EXCEPT !.cap = NoCap, !.deferred = NoWork]
           n == SetPhase(e, "expired")
           r == [n EXCEPT !.rollback_requested = TRUE]
<1>1. /\ e \in Machines /\ e.rec = x.rec /\ e.work = NoWork
      /\ e.deferred \in {x.deferred, NoWork}
  <2>1. x.work.id \in Nat BY MachineFields, WorkFields
  <2>2. CASE HasWork(x)
    <3>1. e = [x EXCEPT !.cap = NoCap, !.revoked = x.work.id, !.work = NoWork] BY <2>2
    <3> QED BY <2>1, <3>1, EmptyTypes DEF Machines
  <2>3. CASE ~HasWork(x)
    <3>1. e = [x EXCEPT !.cap = NoCap, !.deferred = NoWork] BY <2>3
    <3>2. x.work = NoWork BY <2>3 DEF Orderly, Tidy
    <3> QED BY <3>1, <3>2, EmptyTypes DEF Machines
  <2> QED BY <2>2, <2>3
<1> HIDE DEF e
<1>2. Live(e.rec) /\ Near(e, e) BY <1>1 DEF Live, Near, Honest
<1>3. /\ n \in Machines /\ Near(e, n) /\ n.rec.phase = "expired" /\ n.work = NoWork
  BY <1>1, <1>2, SetPhaseNear, Words
<1> HIDE DEF n
<1>4. r \in Machines /\ r.rec = n.rec /\ r.work = NoWork /\ r.deferred = n.deferred
  BY <1>3 DEF Machines
<1> HIDE DEF r
<1>5. Near(e, r) BY <1>3, <1>4 DEF Near
<1>6. \A o \in Outputs : Calm(e, h, {}, o) /\ (o.fault = TRUE \/ o.m.rec.phase = "expired")
        => Frank(x, h, ev, Respond("check_rejected", o))
  <2> SUFFICES ASSUME NEW o \in Outputs, Calm(e, h, {}, o), o.m.rec.phase = "expired",
                      o.fault # TRUE
               PROVE  Frank(x, h, ev, Respond("check_rejected", o))
    BY ReplyKeeps DEF Frank
  <2> DEFINE a == Respond("check_rejected", o)
  <2>1. a.m = o.m /\ a.reset = o.reset /\ a.fault = o.fault /\ a.await = o.await
    BY ReplyKeeps
  <2>2. a.client = "check_rejected" BY DEF Respond, Outputs
  <2> HIDE DEF a
  <2>3. o.reset = FALSE BY DEF Calm
  <2>4. FrankReply(x, ev, a) BY <2>1, <2>2, <2>3 DEF FrankReply, Reasons
  <2>5. Frank(x, h, ev, o) BY <1>1, CalmFrank
  <2>6. FrankRec(x, o) /\ FrankWork(x, h, ev, o) BY <2>3, <2>5 DEF Frank
  <2>7. FrankRec(x, a) /\ FrankWork(x, h, ev, a)
    BY <2>1, <2>6 DEF FrankRec, FrankWork
  <2>8. Frank(x, h, ev, a) BY <2>4, <2>7 DEF Frank
  <2> QED BY <2>8 DEF a
<1>7. Frank(x, h, ev, Respond("check_rejected", Quiet(r)))
  <2>1. Calm(e, h, {}, Quiet(r)) /\ Quiet(r) \in Outputs /\ Quiet(r).m = r
    BY <1>4, <1>5, QuietCalm, QuietType DEF Quiet
  <2> QED BY <1>3, <1>4, <1>6, <2>1
<1>8. Frank(x, h, ev, Respond("check_rejected", Close(n, h, "background", "expired", "none")))
  <2> DEFINE o == Close(n, h, "background", "expired", "none")
  <2>1. Live(n.rec) /\ n.rec.phase # "committed" BY <1>3 DEF Live
  <2>2. Calm(e, h, {}, o) /\ o \in Outputs
    BY <1>3, <2>1, CloseCalm, CloseType, Words DEF Endings
  <2>3. o.fault = TRUE \/ Closes(n, h, o, "expired")
    BY <1>3, <2>1, CloseMoves, Words DEF Endings
  <2>4. [n.rec EXCEPT !.phase = "expired"].phase = "expired"
    BY <1>3, MachineFields, RecordFields
  <2> HIDE DEF o
  <2>5. o.fault = TRUE \/ o.m.rec.phase = "expired"
    BY <1>3, <2>3, <2>4 DEF Closes, Keeps, Phased
  <2>6. Frank(x, h, ev, Respond("check_rejected", o)) BY <1>6, <2>2, <2>5
  <2> QED BY <2>6 DEF o
<1>9. ExpireValidating(x, h) =
        Respond("check_rejected",
            IF CallbackExecuting(n) THEN Quiet(r)
            ELSE Close(n, h, "background", "expired", "none"))
  BY DEF ExpireValidating, n, e, r
<1> QED BY <1>7, <1>8, <1>9

(***************************************************************************)
(* Steps that leave the work in progress                                   *)
(***************************************************************************)
\* A refusal: nothing of the record and the work changes.
Refusal(x, ev) ==
    /\ ev.type = "forwarded"
    /\ \/ ev.cmd.kind \notin {"commit", "query"}
       \/ ev.cmd.kind = "commit" /\ Refuses(x, ev.cmd)

\* A step that leaves the state alone is frank, with a refusal or without.
LEMMA StayFrank ==
    ASSUME NEW x, NEW p, NEW h, NEW ev, NEW reply, Honest(x), ~Answered(x, ev),
           ev.type # "abandon", p.rec = x.rec, p.work = x.work, p.deferred = x.deferred,
           reply = "committed" => x.rec.phase = "committed",
           reply \in Definite => Refusal(x, ev)
    PROVE  Frank(x, h, ev, Quiet(p)) /\ Frank(x, h, ev, Respond(reply, Quiet(p)))
<1>1. ASSUME NEW o, o.m = p, o.reset = FALSE, o.client \in {reply, "none"}
      PROVE  Frank(x, h, ev, o)
  <2>1. Stays(x, o) BY <1>1 DEF Stays
  <2>2. FrankReply(x, ev, o)
    BY <1>1, <2>1 DEF FrankReply, Reasons, Refusal, Definite
  <2>3. FrankRec(x, o) BY <1>1 DEF FrankRec, Honest
  <2>4. FrankWork(x, h, ev, o)
    BY <1>1 DEF FrankWork, Honest, From, HasDeferred
  <2> QED BY <2>2, <2>3, <2>4 DEF Frank
<1>2. /\ Quiet(p).m = p /\ Quiet(p).reset = FALSE /\ Quiet(p).client = "none"
      /\ Respond(reply, Quiet(p)).m = p /\ Respond(reply, Quiet(p)).reset = FALSE
      /\ Respond(reply, Quiet(p)).client \in {reply, "none"}
  BY DEF Quiet, Respond
<1> QED BY <1>1, <1>2

\* A fault says nothing here: the step fails closed instead.
LEMMA FaultFrank == \A x, h, ev, p : Frank(x, h, ev, Fault(p))
BY DEF Frank, Fault, Quiet

\* The timer.
LEMMA TimerFrank ==
    ASSUME NEW x \in Machines, NEW h \in HostFacts, NEW ev, Honest(x),
           Orderly(x, h.snap), Consistent(x), ev.type = "timerFired"
    PROVE  Frank(x, h, ev, Timer(x, h))
<1> DEFINE p == [x EXCEPT !.rollback_requested = @ \/ Defers(x.work)]
<1>0. ~Answered(x, ev) /\ ev.type # "abandon" BY InputAnswers
<1>1. p.rec = x.rec /\ p.work = x.work /\ p.deferred = x.deferred BY DEF Machines
<1> HIDE DEF p
<1>2. Frank(x, h, ev, Quiet(x)) /\ Frank(x, h, ev, Quiet(p))
  BY <1>0, <1>1, StayFrank DEF Definite
<1>3. x.rec.phase = "validating" /\ (x.work.task = "Validator" \/ HasDeferred(x)) =>
        Frank(x, h, ev, ExpireValidating(x, h))
  BY ExpireValidatingFrank
<1>4. x.rec.phase \in {"active", "validating"} /\ ~HasWork(x) =>
        Frank(x, h, ev, Close(x, h, "background", "expired", "none"))
  <2> HAVE x.rec.phase \in {"active", "validating"} /\ ~HasWork(x)
  <2>1. Live(x.rec) /\ x.rec.phase # "committed" /\ x.work = NoWork /\ Near(x, x)
    BY DEF Live, Orderly, Tidy, Near, Honest
  <2>2. Calm(x, h, {}, Close(x, h, "background", "expired", "none"))
    BY <2>1, CloseCalm, Words DEF Endings
  <2> QED BY <2>1, <2>2, CalmFrank
<1>5. Timer(x, h) =
        IF ~h.due \/ x.rec.phase \notin {"active", "validating"} THEN Quiet(x)
        ELSE IF /\ x.rec.phase = "validating"
                /\ x.work.task = "Validator" \/ HasDeferred(x)
        THEN ExpireValidating(x, h)
        ELSE IF HasWork(x) THEN Quiet(p)
        ELSE Close(x, h, "background", "expired", "none")
  BY DEF Timer, p
<1> QED BY <1>2, <1>3, <1>4, <1>5

\* The callback lane starts from a steady state, and what it does is frank.
LEMMA CallbackFrank ==
    ASSUME NEW x \in Machines, NEW h \in HostFacts, NEW ev, Honest(x),
           Orderly(x, h.snap), Consistent(x), ~Answered(x, ev), ev.type # "abandon"
    PROVE  /\ \A q \in Commands : Frank(x, h, ev, CallbackQuery(x, h, q))
           /\ \A result : Frank(x, h, ev, CallbackOutcome(x, h, result))
<1> DEFINE cmds == IF HasDeferred(x) THEN {x.deferred.cmd} ELSE {}
<1>1. Steady(x, cmds)
  <2>1. HasDeferred(x) => x.deferred.task = "Verdict" BY DEF Consistent
  <2>2. x.work.task = "Validator" \/ HasDeferred(x) => x.rec.phase = "validating"
    BY <2>1 DEF Orderly, Fits, At
  <2>3. HasDeferred(x) => IsCommit(x.deferred.cmd)
    BY DEF Honest, HonestDeferred, HasDeferred
  <2> QED BY <2>2, <2>3 DEF Steady, Honest, Orderly, Holds
<1>2. \A cmd \in cmds : From(x, ev, cmd) BY DEF From
<1> HIDE DEF cmds
<1>3. \A o : Calm(x, h, cmds, o) => Frank(x, h, ev, o) BY <1>2, CalmFrank
<1>4. \A q \in Commands : Frank(x, h, ev, CallbackQuery(x, h, q))
  BY <1>1, <1>3, CallbackQueryCalm
<1>5. \A result : Frank(x, h, ev, CallbackOutcome(x, h, result))
  BY <1>1, <1>3, CallbackOutcomeCalm
<1> QED BY <1>4, <1>5

\* The outcome of an effect, whoever waits for it.
LEMMA OutcomeFrank ==
    ASSUME NEW x \in Machines, NEW h \in HostFacts, NEW ev, Honest(x),
           Orderly(x, h.snap), Consistent(x), ev.type # "abandon"
    PROVE  Frank(x, h, ev, Outcome(x, h, ev))
<1>1. CASE Answered(x, ev)
  <2>1. Outcome(x, h, ev) = Consume([x EXCEPT !.work = NoWork], h, x.work, ev.result)
    BY <1>1 DEF Outcome, Answered
  <2> QED BY <1>1, <2>1, ConsumeFrank
<1>2. CASE ~Answered(x, ev)
  <2>1. Frank(x, h, ev, Quiet(x)) BY <1>2, StayFrank DEF Definite
  <2>2. Frank(x, h, ev, Stale(x, ev)) BY <2>1, FaultFrank DEF Stale
  <2>3. Frank(x, h, ev, CallbackOutcome(x, h, ev.result)) BY <1>2, CallbackFrank
  <2>4. Outcome(x, h, ev) \in {Stale(x, ev), CallbackOutcome(x, h, ev.result)}
    BY <1>2 DEF Outcome, Answered
  <2> QED BY <2>2, <2>3, <2>4
<1> QED BY <1>1, <1>2

(***************************************************************************)
(* Client input                                                            *)
(***************************************************************************)
\* A begin waits for its binding check, and is what that check answers.
LEMMA BeginFrank ==
    ASSUME NEW x \in Machines, NEW h \in HostFacts, NEW ev, Honest(x),
           ev.type = "forwarded", ev.cmd \in Commands, ev.cmd.kind = "begin"
    PROVE  Frank(x, h, ev, Begin(x, h, ev.cmd))
<1>0. ~Answered(x, ev) /\ ev.type # "abandon" BY InputAnswers
<1>1. \A reply : reply # "committed" => Frank(x, h, ev, Respond(reply, Quiet(x)))
  BY <1>0, StayFrank DEF Refusal
<1>2. ~HasDeferred(x) => Frank(x, h, ev, Wait(x, h, TaskWork("BeginBinding", "client", ev.cmd)))
  <2> HAVE ~HasDeferred(x)
  <2> DEFINE u == TaskWork("BeginBinding", "client", ev.cmd)
             o == Wait(x, h, u)
  <2>1. u \in Works BY TaskWorkType, Words
  <2>2. u.task = "BeginBinding" BY BuiltFields
  <2> HIDE DEF u
  <2>3. /\ o.m.rec = x.rec /\ o.m.deferred = x.deferred /\ o.m.work.id = h.id
        /\ o.m.work.task = "BeginBinding" /\ o.client = "none" /\ o.reset = FALSE
        /\ o.await.type = AwaitedBy("BeginBinding")
    BY <2>1, <2>2, WaitLeaves
  <2> HIDE DEF o
  <2>4. FrankReply(x, ev, o) BY <2>3 DEF FrankReply, Definite
  <2>5. FrankRec(x, o) BY <2>3 DEF FrankRec, Honest
  <2>6. HonestWork(o.m.rec, o.m.work)
    BY <2>3 DEF HonestWork, CommitTasks, OtherTasks
  <2>7. FrankWork(x, h, ev, o)
    BY <2>3, <2>6 DEF FrankWork, Honest, HasDeferred, CommitTasks
  <2>8. Frank(x, h, ev, o) BY <2>4, <2>5, <2>7 DEF Frank
  <2> QED BY <2>8 DEF o, u
<1> QED BY <1>1, <1>2 DEF Begin, Busy, BusyCode

\* A command that finds a COMMIT which may have been sent.
LEMMA CommitUncertainFrank ==
    ASSUME NEW x \in Machines, NEW h \in HostFacts, NEW ev, Honest(x),
           ev.type = "forwarded", ev.cmd \in Commands, ev.cmd.kind # "query",
           x.rec.phase \in {"committing", "commit_unknown"}
    PROVE  Frank(x, h, ev, CommitUncertain(x, h, ev.cmd))
<1> DEFINE cmd == ev.cmd
           answer == IF cmd.kind = "commit" /\ cmd.seq = x.rec.seq
                     THEN "outcome_unknown" ELSE "unavailable"
           p == SetPhase(Fresh(x.rec), "commit_unknown")
           u == ReplyWork("client", answer, answer)
           o == Wait(p, h, u)
<1>0. ~Answered(x, ev) /\ ev.type # "abandon" BY InputAnswers
<1>1. Frank(x, h, ev, Respond("internal", Quiet(x))) BY <1>0, StayFrank DEF Definite
<1>2. /\ answer \in Replies /\ answer # "committed"
      /\ answer \in Definite => cmd.kind # "commit" \/ cmd.seq # x.rec.seq
  BY Words DEF Definite
<1> HIDE DEF answer
<1>3. x.work.lane # "client" /\ x.rec.phase # "committing" =>
         Frank(x, h, ev, Respond(answer, Quiet(x)))
  BY <1>0, <1>2, StayFrank DEF Refusal, Refuses
<1>4. x.rec.phase = "committing" => Frank(x, h, ev, o)
  <2> HAVE x.rec.phase = "committing"
  <2> DEFINE f == Fresh(x.rec)
  <2>1. x.rec \in Records BY MachineFields
  <2>2. /\ f \in Machines /\ f.rec = x.rec /\ f.deferred = NoWork /\ Live(f.rec)
        /\ f.rec.phase # "committed"
    BY <2>1, FreshType, FreshOrderly DEF Live
  <2> HIDE DEF f
  <2>3. Near(f, f) BY <2>2 DEF Near, Honest
  <2>4. /\ p \in Machines /\ Near(f, p) /\ p.rec.phase = "commit_unknown"
    BY <2>2, <2>3, SetPhaseNear, Words DEF f
  <2> HIDE DEF p
  <2>5. u \in Works BY <1>2, ReplyWorkType, Words
  <2>6. u.task = "Reply" /\ u.reply = answer /\ u.failure = answer /\ u.expire_after = FALSE
    BY BuiltFields, BuiltReplies
  <2> HIDE DEF u
  <2>7. /\ o.m.rec = p.rec /\ o.m.deferred = p.deferred /\ o.m.work.id = h.id
        /\ o.m.work.task = "Reply" /\ o.m.work.reply = answer /\ o.m.work.failure = answer
        /\ o.m.work.expire_after = FALSE /\ o.client = "none" /\ o.reset = FALSE
        /\ o.await.type = AwaitedBy("Reply")
    BY <2>4, <2>5, <2>6, WaitLeaves
  <2> HIDE DEF o
  <2>8. p.rec.seq = x.rec.seq /\ p.rec.auth = x.rec.auth /\ p.deferred = NoWork
    BY <2>2, <2>4 DEF Near
  <2>9. FrankReply(x, ev, o) BY <2>7 DEF FrankReply, Definite
  <2>10. FrankRec(x, o) BY <2>4, <2>7, <2>8 DEF FrankRec, Near
  <2>11. HonestWork(o.m.rec, o.m.work)
    BY <1>2, <2>4, <2>7 DEF HonestWork, CommitTasks, OtherTasks
  <2>12. FrankWork(x, h, ev, o)
    BY <1>2, <2>4, <2>7, <2>8, <2>11, NoWorkHonest
    DEF FrankWork, HasDeferred, CommitTasks, Held, InDoubt
  <2> QED BY <2>9, <2>10, <2>12 DEF Frank
<1>5. CommitUncertain(x, h, cmd) =
        IF x.work.lane = "client" THEN Respond("internal", Quiet(x))
        ELSE IF x.rec.phase = "committing" THEN o
        ELSE Respond(answer, Quiet(x))
  BY DEF CommitUncertain, PersistReply, answer
<1> HIDE DEF o
<1> QED BY <1>1, <1>3, <1>4, <1>5

\* A command on a record that lives and whose commit is not in doubt, which
\* repeats no command: a commit of it is not the one that committed.
LEMMA OrdinaryRefusal ==
    ASSUME NEW x \in Machines, NEW ev, Honest(x),
           ev.type = "forwarded", ev.cmd \in Commands, ev.cmd.kind # "query",
           IsCommit(ev.cmd) \/ ev.cmd.kind # "commit",
           x.rec.phase \notin {"absent", "discarded", "committing", "commit_unknown"},
           ~Replays(x.rec, ev.cmd), x.work.lane # "client", ~HasDeferred(x)
    PROVE  Refusal(x, ev)
<1>1. CASE ev.cmd.kind # "commit" BY <1>1 DEF Refusal
<1>2. CASE IsCommit(ev.cmd)
  <2>1. x.rec.phase \in Phases BY MachineFields DEF Records
  <2>2. x.rec.phase = "committed" => ev.cmd.seq = 0 \/ ev.cmd.seq + 1 # x.rec.seq
    <3> HAVE x.rec.phase = "committed"
    <3>1. x.rec.last = [kind |-> "commit", pay |-> "none"] BY DEF Honest, HonestRec
    <3>2. DigestOf(ev.cmd) = x.rec.last /\ x.rec.last # NoDigest
      BY <1>2, <3>1 DEF DigestOf, NoDigest, IsCommit
    <3>3. ev.cmd.kind # "statement" BY <1>2 DEF IsCommit
    <3> QED BY <3>2, <3>3 DEF Replays
  <2>3. Refuses(x, ev.cmd)
    BY <2>1, <2>2 DEF Refuses, Phases, Terminal, HasDeadline, Endings
  <2> QED BY <1>2, <2>3 DEF Refusal, IsCommit
<1> QED BY <1>1, <1>2

\* A command of the record's own caller and snapshot.
LEMMA OwnCommandFrank ==
    ASSUME NEW x \in Machines, NEW h \in HostFacts, NEW ev, Honest(x),
           Orderly(x, h.snap),
           ev.type = "forwarded", ev.cmd \in Commands, ev.cmd.kind # "query",
           IsCommit(ev.cmd) \/ ev.cmd.kind # "commit",
           x.rec.phase \notin {"absent", "discarded", "committing", "commit_unknown"},
           ~Replays(x.rec, ev.cmd), ~Busy(x)
    PROVE  Frank(x, h, ev, OwnCommand(x, h, ev.cmd))
<1> DEFINE cmd == ev.cmd
           cmds == IF IsCommit(cmd) THEN {cmd} ELSE {}
<1>0. ~Answered(x, ev) /\ ev.type # "abandon" BY InputAnswers
<1>1. x.work = NoWork /\ ~HasDeferred(x) BY DEF Busy, Orderly, Tidy
<1>2. Refusal(x, ev)
  <2>1. x.work.lane # "client" BY <1>1 DEF NoWork
  <2> QED BY <1>1, <2>1, OrdinaryRefusal
<1>3. \A reply : reply # "committed" => Frank(x, h, ev, Respond(reply, Quiet(x)))
  BY <1>0, <1>2, StayFrank
<1>4. Near(x, x) BY DEF Near, Honest
<1>5. \A c \in cmds : From(x, ev, c) BY DEF From, IsCommit
<1>6. \A o : Calm(x, h, cmds, o) => Frank(x, h, ev, o)
  BY <1>1, <1>5, CalmFrank
<1>7. Live(x.rec) BY DEF Live
<1>8. x.rec.phase = "active" =>
        \A phase \in Endings, reply \in Replies \ {"committed"} :
           Frank(x, h, ev, Close(x, h, "client", phase, reply))
  BY <1>4, <1>6, <1>7, ClosersCalm, Words
<1>9. x.rec.phase = "active" => Frank(x, h, ev, NextCommand(x, h, cmd))
  <2> HAVE x.rec.phase = "active"
  <2>1. {"limit", "sql_rejected"} \subseteq Replies \ {"committed"} /\ "failed" \in Endings
    BY Words DEF Endings
  <2>2. cmd.kind = "statement" => Frank(x, h, ev, Statement(x, h, cmd))
    <3> HAVE cmd.kind = "statement"
    <3>1. Calm(x, h, cmds, Wait(x, h, TaskWork("StatementBinding", "client", cmd)))
      BY <1>4, TaskCalm, Words DEF CommitTasks
    <3> QED BY <1>6, <1>8, <2>1, <3>1 DEF Statement
  <2>3. cmd.kind = "commit" =>
          \A check \in Nat :
             Frank(x, h, ev, Wait(x, h, [TaskWork("CommitBinding", "client", cmd) EXCEPT
                                            !.check = check]))
    <3> HAVE cmd.kind = "commit"
    <3> TAKE check \in Nat
    <3>0. IsCommit(cmd) /\ cmd \in cmds OBVIOUS
    <3> HIDE DEF cmds
    <3>1. Calm(x, h, cmds, Wait(x, h, [TaskWork("CommitBinding", "client", cmd) EXCEPT
                                            !.check = check]))
      BY <1>4, <3>0, TaskCalm, Words DEF OtherTasks
    <3> QED BY <1>6, <3>1
  <2>4. cmd.kind # "commit" =>
          Frank(x, h, ev, Wait(x, h, TaskWork("RollbackBinding", "client", cmd)))
    <3> HAVE cmd.kind # "commit"
    <3>1. Calm(x, h, cmds, Wait(x, h, TaskWork("RollbackBinding", "client", cmd)))
      BY <1>4, TaskCalm, Words DEF CommitTasks
    <3> QED BY <1>6, <3>1
  <2>5. (IF Triggered(x.rec) THEN 1 ELSE 0) \in Nat OBVIOUS
  <2> QED BY <2>2, <2>3, <2>4, <2>5 DEF NextCommand
<1> HIDE DEF cmds
<1>10. /\ {"unavailable", "conflict"} \subseteq Replies \ {"committed"}
       /\ {"failed", "expired"} \subseteq Endings
  BY Words DEF Endings
<1>11. "unavailable" # "committed" /\ "invalid" # "committed" OBVIOUS
<1> QED BY <1>3, <1>8, <1>9, <1>10, <1>11 DEF OwnCommand

\* Every command, begin and query that is forwarded.
LEMMA ForwardedFrank ==
    ASSUME NEW x \in Machines, NEW h \in HostFacts, NEW ev, Honest(x),
           Orderly(x, h.snap), Consistent(x),
           ev.type = "forwarded", ev.cmd \in Commands,
           ev.cmd.kind = "commit" => ev.cmd.pay = "none"
    PROVE  Frank(x, h, ev, Forwarded(x, h, ev.cmd))
<1> DEFINE cmd == ev.cmd
<1>0. ~Answered(x, ev) /\ ev.type # "abandon" BY InputAnswers
<1>1. cmd.kind = "begin" => Frank(x, h, ev, Begin(x, h, cmd)) BY BeginFrank
<1>2. cmd.kind = "query" => Frank(x, h, ev, CallbackQuery(x, h, cmd))
  BY <1>0, CallbackFrank
<1>3. ASSUME cmd.kind \in {"statement", "commit", "rollback"}
      PROVE  Frank(x, h, ev, Command(x, h, cmd))
  <2>0. cmd.kind # "query" /\ (IsCommit(cmd) \/ cmd.kind # "commit")
    BY <1>3 DEF IsCommit
  <2>1. \A reply : reply \notin Telling \/ (reply # "committed" /\ Refusal(x, ev)) =>
           Frank(x, h, ev, Respond(reply, Quiet(x)))
    BY <1>0, StayFrank DEF Telling
  <2>2. x.rec.phase = "discarded" =>
          Frank(x, h, ev, Respond(IF cmd.kind = "commit" THEN "outcome_unknown"
                                  ELSE "unavailable", Quiet(x)))
    BY <1>3, <2>1 DEF Refusal, Telling, Definite
  <2>3. x.rec.phase # "discarded" /\ (x.rec.phase = "absent" \/ cmd.auth # x.rec.auth) =>
          Frank(x, h, ev, Respond("unavailable", Quiet(x)))
    BY <1>3, <2>1 DEF Refusal, Refuses
  <2>4. Frank(x, h, ev, Respond(LastReply(x.rec), Quiet(x)))
    <3>1. LastReply(x.rec) = "committed" => x.rec.phase = "committed"
      BY DEF LastReply, Honest, HonestRec
    <3>2. LastReply(x.rec) \notin Definite BY DEF LastReply, Definite
    <3> QED BY <1>0, <3>1, <3>2, StayFrank
  <2>5. x.rec.phase \in {"committing", "commit_unknown"} =>
          Frank(x, h, ev, CommitUncertain(x, h, cmd))
    BY <2>0, CommitUncertainFrank
  <2>6. ASSUME x.rec.phase \notin {"absent", "discarded", "committing", "commit_unknown"},
               ~Replays(x.rec, cmd)
        PROVE  /\ Frank(x, h, ev, Respond(BusyCode(x), Quiet(x)))
               /\ ~Busy(x) => /\ Frank(x, h, ev, Respond("unavailable", Quiet(x)))
                              /\ Frank(x, h, ev, OwnCommand(x, h, cmd))
    <3>1. x.work.lane # "client" /\ ~HasDeferred(x) => Refusal(x, ev)
      BY <2>0, <2>6, OrdinaryRefusal
    <3>2. Frank(x, h, ev, Respond(BusyCode(x), Quiet(x)))
      BY <2>1, <3>1 DEF BusyCode, Telling, Definite
    <3>3. ~Busy(x) => x.work.lane # "client" /\ ~HasDeferred(x)
      BY DEF Busy, Orderly, Tidy, NoWork
    <3>4. ~Busy(x) => Frank(x, h, ev, Respond("unavailable", Quiet(x)))
      BY <2>1, <3>1, <3>3
    <3>5. ~Busy(x) => Frank(x, h, ev, OwnCommand(x, h, cmd))
      BY <2>0, <2>6, OwnCommandFrank
    <3> QED BY <3>2, <3>4, <3>5
  <2> QED BY <2>2, <2>3, <2>4, <2>5, <2>6 DEF Command
<1>4. cmd.kind \notin {"commit", "query"} => Frank(x, h, ev, Respond("invalid", Quiet(x)))
  BY <1>0, StayFrank DEF Refusal
<1> QED BY <1>1, <1>2, <1>3, <1>4 DEF Forwarded

(***************************************************************************)
(* The step                                                                *)
(***************************************************************************)
\* A record whose volatile part is dropped, as it is or at its end.
LEMMA DroppedNear ==
    ASSUME NEW x \in Machines, Honest(x)
    PROVE  LET f == Fresh(x.rec)
           IN  /\ f \in Machines /\ f.work = NoWork /\ f.deferred = NoWork /\ Near(f, f)
               /\ \A next \in {"failed", "commit_unknown"} :
                     x.rec.phase \in HasDeadline =>
                        LET p == SetPhase(f, next)
                        IN  p \in Machines /\ Near(f, p) /\ p.work = NoWork
               /\ \A h, ev, o : Calm(f, h, {}, o) => Frank(x, h, ev, o)
<1> DEFINE f == Fresh(x.rec)
<1>1. /\ f \in Machines /\ f.rec = x.rec /\ f.work = NoWork /\ f.deferred = NoWork
  BY MachineFields, FreshType, FreshOrderly
<1> HIDE DEF f
<1>2. Near(f, f) BY <1>1 DEF Near, Honest
<1>3. \A next \in {"failed", "commit_unknown"} :
         x.rec.phase \in HasDeadline =>
            SetPhase(f, next) \in Machines /\ Near(f, SetPhase(f, next))
            /\ SetPhase(f, next).work = NoWork
  <2> TAKE next \in {"failed", "commit_unknown"}
  <2> HAVE x.rec.phase \in HasDeadline
  <2>1. Live(f.rec) /\ f.rec.phase # "committed" BY <1>1 DEF Live, HasDeadline
  <2>2. next \in Phases \ {"discarded", "committed"} BY Words
  <2> QED BY <1>1, <1>2, <2>1, <2>2, SetPhaseNear
<1>4. \A h, ev, o : Calm(f, h, {}, o) => Frank(x, h, ev, o) BY <1>1, CalmFrank
<1> QED BY <1>1, <1>2, <1>3, <1>4 DEF f

\* Abandoning tells nobody anything.
LEMMA AbandonFrank ==
    ASSUME NEW x \in Machines, NEW h \in HostFacts, NEW ev, Honest(x)
    PROVE  Frank(x, h, ev, Abandon(x, h))
<1> DEFINE f == Fresh(x.rec)
           next == IF x.rec.phase \in {"active", "validating"} /\ x.conn # "none"
                   THEN "failed"
                   ELSE IF x.rec.phase = "committing" THEN "commit_unknown" ELSE "absent"
           p == SetPhase(f, next)
           o == [Quiet(p) EXCEPT !.await = [type |-> "persist", id |-> h.id, arg |-> 0]]
<1>1. Abandon(x, h) = IF next = "absent" THEN Quiet(f) ELSE o BY DEF Abandon
<1>2. next # "absent" => next \in {"failed", "commit_unknown"} /\ x.rec.phase \in HasDeadline
  BY DEF HasDeadline
<1> HIDE DEF f, next
<1>3. /\ f \in Machines /\ f.work = NoWork /\ Near(f, f)
      /\ next # "absent" => p \in Machines /\ Near(f, p) /\ p.work = NoWork
      /\ \A r : Calm(f, h, {}, r) => Frank(x, h, ev, r)
  BY <1>2, DroppedNear DEF f
<1> HIDE DEF p
<1>4. Calm(f, h, {}, Quiet(f)) BY <1>3, QuietCalm
<1>5. o.m = p /\ o.client = "none" /\ o.reset = FALSE BY DEF Quiet
<1> HIDE DEF o
<1>6. next # "absent" => Calm(f, h, {}, o)
  BY <1>3, <1>5 DEF Calm, Telling, Definite
<1> QED BY <1>1, <1>3, <1>4, <1>6

\* Failing closed tells everyone who waits, and nothing definite.
LEMMA FailClosedFrank ==
    ASSUME NEW x \in Machines, NEW h \in HostFacts, NEW ev, Honest(x)
    PROVE  Frank(x, h, ev, FailClosed(x, h, ev)) /\ FailClosed(x, h, ev).fault = FALSE
<1> DEFINE f == Fresh(x.rec)
           next == IF x.rec.phase \in {"active", "validating"} /\ ~Idle(x) THEN "failed"
                   ELSE IF x.rec.phase = "committing" THEN "commit_unknown" ELSE "absent"
           p == SetPhase(f, next)
           reset == Reset(Quiet(f))
           u == TaskWork("ResetAfterPersist", "background", NoCmd)
           wait == Wait(p, h, u)
           o == IF next = "absent" THEN reset ELSE wait
           c == FaultReply(x, ev)
           d == FaultCallbackReply(x, ev)
           e == [o EXCEPT !.client = c, !.callback = d]
<1>1. FailClosed(x, h, ev) = e BY DEF FailClosed
<1>2. c \notin Telling BY DEF FaultReply, Telling, Definite
<1>3. next # "absent" => next \in {"failed", "commit_unknown"} /\ x.rec.phase \in HasDeadline
  BY DEF HasDeadline
<1> HIDE DEF c, d, f, next
<1>4. /\ f \in Machines
      /\ next # "absent" => p \in Machines /\ Near(f, p) /\ p.work = NoWork
      /\ \A r : Calm(f, h, {}, r) => Frank(x, h, ev, r)
  BY <1>3, DroppedNear DEF f
<1> HIDE DEF p
<1>5. CASE next = "absent"
  <2>1. o = reset BY <1>5
  <2>2. Quiet(f) \in Outputs BY <1>4, QuietType
  <2>3. reset \in Outputs /\ reset.reset = TRUE BY <2>2, ReplyTypes, ReplyKeeps, Words
  <2>4. reset.fault = FALSE BY DEF Reset, Quiet
  <2> HIDE DEF reset, o
  <2>5. e.client = c /\ e.reset = TRUE /\ e.fault = FALSE
    BY <2>1, <2>3, <2>4 DEF Outputs
  <2> HIDE DEF e
  <2>6. FrankReply(x, ev, e) BY <1>2, <2>5 DEF FrankReply, Telling
  <2>7. Frank(x, h, ev, e) BY <2>5, <2>6 DEF Frank
  <2> QED BY <1>1, <2>5, <2>7
<1>6. CASE next # "absent"
  <2>1. o = wait BY <1>6
  <2>2. u \in Works BY TaskWorkType, EmptyTypes, Words
  <2>3. Calm(f, h, {}, wait)
    BY <1>4, <1>6, TaskCalm, EmptyTypes, Words DEF CommitTasks, OtherTasks
  <2> HIDE DEF u
  <2>4. wait \in Outputs /\ wait.fault = FALSE
    BY <1>4, <1>6, <2>2, WaitType, WaitLeaves
  <2> HIDE DEF wait, o
  <2>5. e.m = wait.m /\ e.client = c /\ e.reset = wait.reset /\ e.fault = FALSE
    BY <2>1, <2>4 DEF Outputs
  <2> HIDE DEF e
  <2>6. Calm(f, h, {}, e) BY <1>2, <2>3, <2>4, <2>5 DEF Calm
  <2> QED BY <1>1, <1>4, <2>5, <2>6
<1> QED BY <1>5, <1>6

\* Dropping an idle volatile part makes no difference.
LEMMA FinishFrank ==
    ASSUME NEW x, NEW h, NEW ev, NEW o \in Outputs, Frank(x, h, ev, o), o.fault = FALSE
    PROVE  Frank(x, h, ev, FinishOutput(o)) /\ FinishOutput(o).fault = FALSE
<1> DEFINE f == FinishOutput(o)
<1>1. FrankReply(x, ev, o) /\ (o.reset = FALSE => FrankRec(x, o) /\ FrankWork(x, h, ev, o))
  BY DEF Frank
<1>2. CASE o.reset
  <2>1. o.reset = TRUE BY <1>2 DEF Outputs
  <2>2. f.client = o.client /\ f.reset = TRUE /\ f.fault = FALSE
    BY <2>1 DEF FinishOutput, Outputs
  <2> HIDE DEF f
  <2>3. FrankReply(x, ev, f) BY <1>1, <2>1, <2>2 DEF FrankReply, Reasons, Stays
  <2>4. Frank(x, h, ev, f) BY <2>2, <2>3 DEF Frank
  <2> QED BY <2>2, <2>4 DEF f
<1>3. CASE ~o.reset /\ Idle(o.m)
  <2>1. /\ f.m = Fresh(o.m.rec) /\ f.client = o.client /\ f.reset = o.reset
        /\ f.fault = FALSE
    BY <1>3 DEF FinishOutput, Outputs
  <2>2. f.m.rec = o.m.rec /\ f.m.work = NoWork /\ f.m.deferred = NoWork
    BY <2>1, FreshOrderly
  <2> HIDE DEF f
  <2>3. o.reset = FALSE BY <1>3 DEF Outputs
  <2>4. Stays(x, o) => Stays(x, f)
    BY <2>1, <2>2, NoWorkHonest DEF Stays, HasWork, HasDeferred
  <2>5. FrankReply(x, ev, f) BY <1>1, <2>1, <2>2, <2>4 DEF FrankReply, Reasons
  <2>6. FrankRec(x, f) BY <1>1, <2>2, <2>3 DEF FrankRec
  <2>7. FrankWork(x, h, ev, f)
    BY <2>2, NoWorkHonest DEF FrankWork, HasDeferred, CommitTasks
  <2>8. Frank(x, h, ev, f) BY <2>5, <2>6, <2>7 DEF Frank
  <2> QED BY <2>1, <2>8 DEF f
<1>4. CASE ~o.reset /\ ~Idle(o.m)
  <2>1. f = o BY <1>4 DEF FinishOutput
  <2> QED BY <2>1
<1> QED BY <1>2, <1>3, <1>4

\* Every step of the machine is frank, on every event: what it answers is
\* true of the record, and a commit is rejected for certain only when it was
\* refused as it came, or its transaction has ended (step.rs step).
THEOREM FrankSteps ==
    ASSUME NEW x \in Machines, NEW h \in HostFacts, NEW ev \in Events, Honest(x),
           Orderly(x, h.snap), Consistent(x),
           ev.type = "forwarded" /\ ev.cmd.kind = "commit" => ev.cmd.pay = "none"
    PROVE  LET o == RunDispatch(x, h, ev)
           IN  /\ FrankReply(x, ev, o)
               /\ o.reset = FALSE => FrankRec(x, o) /\ FrankWork(x, h, ev, o)
<1> DEFINE d == Dispatch(x, h, ev)
           failed == FailClosed(x, h, ev)
           o == IF d.fault \/ (~d.reset /\ ~Consistent(d.m)) THEN failed ELSE d
           r == RunDispatch(x, h, ev)
<1>1. ev.cmd \in Commands BY DEF Events
<1>2. d \in Outputs /\ failed \in Outputs
  BY <1>1, AbandonType, ForwardedType, TimerType, OutcomeType, FailClosedType
     DEF Dispatch
<1>3. Frank(x, h, ev, d)
  BY <1>1, AbandonFrank, ForwardedFrank, TimerFrank, OutcomeFrank DEF Dispatch
<1>4. Frank(x, h, ev, failed) /\ failed.fault = FALSE BY FailClosedFrank
<1>5. r = FinishOutput(o) BY DEF RunDispatch
<1> HIDE DEF d, failed, r
<1>6. d.fault \in BOOLEAN BY <1>2 DEF Outputs
<1>7. Frank(x, h, ev, o) /\ o.fault = FALSE /\ o \in Outputs
  <2>1. CASE d.fault \/ (~d.reset /\ ~Consistent(d.m)) BY <1>2, <1>4, <2>1
  <2>2. CASE ~(d.fault \/ (~d.reset /\ ~Consistent(d.m))) BY <1>2, <1>3, <1>6, <2>2
  <2> QED BY <2>1, <2>2
<1> HIDE DEF o
<1>8. Frank(x, h, ev, r) /\ r.fault = FALSE BY <1>5, <1>7, FinishFrank
<1> QED BY <1>8 DEF Frank, r

\* An unreadable record promises nothing, and its discarding tells a commit
\* nothing definite.
LEMMA DiscardFrank ==
    ASSUME NEW h \in HostFacts, NEW ev
    PROVE  LET o == FinishOutput(Discard(h, ev))
           IN  /\ o.client # "committed"
               /\ o.client \in Definite =>
                     ev.type = "forwarded" /\ ev.cmd.kind \notin {"commit", "query"}
               /\ Honest(o.m) /\ o.m.work.task \notin CommitTasks
               /\ ~HasDeferred(o.m) /\ ~Held(o.m.rec, o.m.work)
<1> DEFINE w == ReplyWork("background", "none", "none")
           t == Fresh(Tombstone)
           o == Wait(t, h, w)
           d == Discard(h, ev)
           f == FinishOutput(d)
<1>1. t \in Machines /\ t.rec = Tombstone /\ t.deferred = NoWork
  BY FreshOrderly, FreshType, EmptyTypes
<1>2. w \in Works /\ w.task = "Reply" /\ w.expire_after = FALSE /\ w.reply = "none"
      /\ w.failure = "none"
  BY ReplyWorkType, BuiltFields, BuiltReplies, Words
<1> HIDE DEF t, w
<1>3. /\ o.m.rec = Tombstone /\ o.m.deferred = NoWork /\ o.m.work.task = "Reply"
      /\ o.m.work.reply = "none" /\ o.m.work.failure = "none"
      /\ o.m.work.expire_after = FALSE /\ o.client = "none" /\ o.reset = FALSE
      /\ o \in Outputs
  BY <1>1, <1>2, WaitLeaves, WaitType
<1>4. d = IF ev.type # "forwarded" THEN o
          ELSE IF ev.cmd.kind = "query" THEN RespondCallback("unavailable", o)
          ELSE Respond(IF ev.cmd.kind = "commit" THEN "outcome_unknown"
                       ELSE "unavailable", o)
  BY DEF Discard, t, w
<1> HIDE DEF o, d
<1>5. d.m = o.m /\ d.reset = FALSE BY <1>3, <1>4, ReplyKeeps
<1>6. /\ d.client # "committed"
      /\ d.client \in Definite =>
            ev.type = "forwarded" /\ ev.cmd.kind \notin {"commit", "query"}
  BY <1>3, <1>4 DEF Respond, RespondCallback, Outputs, Definite
<1>7. f = d
  <2>1. ~Idle(d.m) BY <1>3, <1>5 DEF Idle, HasWork
  <2> QED BY <1>5, <2>1 DEF FinishOutput
<1>8. Tombstone.phase = "discarded" /\ Tombstone.last = NoDigest
  BY DEF Tombstone, NoRec
<1>9. HonestRec(Tombstone) BY <1>8 DEF HonestRec, NoDigest
<1>10. Honest(d.m) /\ d.m.work.task \notin CommitTasks /\ ~HasDeferred(d.m)
       /\ ~Held(d.m.rec, d.m.work)
  BY <1>3, <1>5, <1>8, <1>9, NoWorkHonest
  DEF Honest, HonestWork, Held, InDoubt, HasDeferred, CommitTasks, OtherTasks, Definite
<1> QED BY <1>6, <1>7, <1>10 DEF d

(***************************************************************************)
(* The answers and the owner.  Current is the state in memory, or what a   *)
(* successor reads from the store.                                         *)
(***************************************************************************)
\* What is in memory and in the store is honest, and the commands that drives
\* are about to step are those of their lanes: the client's own caller waits
\* for the client's command, or was answered.
Pending(e) == flight[e].stage = "ready" /\ flight[e].ev.type = "forwarded"
HonestNow == Honest(Current) /\ HonestRec(store)
Asked ==
    /\ Pending("client") =>
          /\ flight["client"].ev.cmd \in ClientInputs
          /\ waiter["client"] \in {NoCmd, flight["client"].ev.cmd}
    /\ \A e \in Drives \ {"client"} : Pending(e) => flight[e].ev.cmd.kind = "query"

\* A begin, and an answer in doubt, belong to the client's drive; a commit that
\* waits meanwhile is not the one in doubt.
HeldByClient ==
    Held(Current.rec, Current.work) =>
        /\ \/ /\ Awaits("client", AwaitedBy(Current.work.task))
              /\ flight["client"].ev.id = Current.work.id
           \/ flight["client"].stage = "ready" /\ flight["client"].ev.type = "abandon"
        /\ waiter["client"].kind = "commit" =>
              /\ InDoubt(Current.rec, Current.work)
              /\ waiter["client"].seq # Current.rec.seq

\* A write that took left a record.
TookStored ==
    \A e \in Drives : Awaits(e, "persist") /\ flight[e].took => store.phase # "absent"

CallerInv == HonestNow /\ Asked /\ HeldByClient /\ TookStored

\* The sequence and the caller of the COMMIT that is awaited, or was sent, are
\* those of the record, in memory and in the store.
Uncertain == {"committing", "commit_unknown"}
SentAs(rec) ==
    sent # NotSent /\ rec.phase \notin {"discarded", "unreadable"} =>
        /\ rec.auth = sent.auth
        /\ rec.phase \in Uncertain => rec.seq = sent.seq
        /\ rec.phase = "committed" => rec.seq = sent.seq + 1
AwaitedAs(rec) ==
    \A e \in Drives : Awaits(e, "commit") =>
        rec.phase \in Uncertain /\ rec.seq = flight[e].arg
Agrees ==
    /\ store.phase \notin {"absent", "unreadable", "discarded"} =>
          Current.rec.auth = store.auth
    /\ store.phase = "committing" /\ Current.rec.phase = "committing" =>
          Current.rec.seq = store.seq
Tracked == /\ SentAs(Current.rec) /\ SentAs(store)
           /\ AwaitedAs(Current.rec) /\ AwaitedAs(store) /\ Agrees
SentInv == Tracked /\ (db = "committed" => sent # NotSent)

\* A rejected commit stays so: its transaction is over, or nothing that is
\* sent, awaited, in progress or about to be stepped is that commit.
Is(cmd, t) == cmd.seq = t.seq /\ cmd.auth = t.auth
Over == /\ sent = NotSent /\ \A e \in Drives : ~Awaits(e, "commit")
        /\ store.phase # "absent" /\ ~Runs(Current)
Mute(t) ==
    /\ sent # NotSent => ~Is(sent, t)
    /\ \A e \in Drives : Awaits(e, "commit") =>
          ~(flight[e].arg = t.seq /\ store.auth = t.auth)
    /\ Current.work.task \in CommitTasks => ~Is(Current.work.cmd, t)
    /\ HasDeferred(Current) => ~Is(Current.deferred.cmd, t)
Unasked(t) ==
    Pending("client") /\ flight["client"].ev.cmd.kind = "commit" =>
        ~Is(flight["client"].ev.cmd, t)
Silent(t) == Mute(t) /\ Unasked(t)
ToldInv ==
    \A t \in told : /\ t.answer = "committed" => db = "committed"
                    /\ t.answer = "rejected" => Over \/ Silent(t)

AnswerInv == CallerInv /\ SentInv /\ ToldInv

(***************************************************************************)
(* A step of a drive                                                       *)
(***************************************************************************)
\* What drive d, stepping ev, does to the drives, the callers and the record.
Speaks(d, ev, o) ==
    /\ Heard(d, ev) /\ Tells(o) /\ sent' \in {sent, NotSent}
    /\ \A e \in Drives \ {d} : flight'[e] = flight[e]
    /\ flight'[d].stage # "ready"
    /\ Awaits(d, "persist")' /\ flight'[d].took => store'.phase # "absent"
    /\ store'.phase = "absent" => store' = store

\* The state goes on; it is dropped; or it was unreadable, and is discarded.
Carries(d, ev, conn, h, o) ==
    /\ GoesOn(d, ev, conn, h, o)
    /\ FrankReply(Current, ev, o) /\ FrankRec(Current, o) /\ FrankWork(Current, h, ev, o)
    /\ store' = store \/ (o.await.type = "persist" /\ store' = o.m.rec)
Drops(d, ev, o) ==
    /\ Current \in Machines /\ Consistent(Current) /\ Orderly(Current, runtime)
    /\ FrankReply(Current, ev, o)
    /\ Current' = Fresh(store) /\ store' = store /\ flight'[d].stage = "idle"
Discards(d, ev, o) ==
    /\ store = Unreadable /\ store' \in {store, Tombstone} /\ ~Awaits(d, "commit")'
    /\ Current' = o.m /\ o.m.rec = Tombstone /\ o.m.conn = "none" /\ Honest(o.m)
    /\ o.m.work.task \notin CommitTasks /\ ~HasDeferred(o.m) /\ ~Held(o.m.rec, o.m.work)
    /\ o.client # "committed"
    /\ o.client \in Definite =>
          ev.type = "forwarded" /\ ev.cmd.kind \notin {"commit", "query"}

\* A forwarded command is the client's, or a query of the callback lane.
LEMMA ForwardedBy ==
    ASSUME Asked, NEW d \in Drives, NEW ev, Heard(d, ev), ev.type = "forwarded"
    PROVE  /\ Pending(d) /\ ev = flight[d].ev
           /\ d # "client" => ev.cmd.kind = "query"
           /\ d = "client" =>
                 /\ waiter["client"] \in {NoCmd, ev.cmd} /\ ev.cmd.kind # "query"
                 /\ ev.cmd.kind = "commit" => ev.cmd.pay = "none"
<1>1. flight[d].stage = "ready" /\ ev = flight[d].ev BY DEF Heard, EffectTypes
<1>2. Pending(d) BY <1>1 DEF Pending
<1> QED BY <1>1, <1>2, InputsAssumption DEF Asked

\* Every step of a drive is one of these.
LEMMA SpeakSteps ==
    ASSUME FedTypes, CommitProtocol, RecordInv, HonestNow, Asked, NEW d \in Drives,
           Progress(d)
    PROVE  \E ev \in Events, conn \in BOOLEAN, h \in HostFacts, o \in Outputs :
              /\ Speaks(d, ev, o)
              /\ \/ Carries(d, ev, conn, h, o) \/ Drops(d, ev, o)
                 \/ Discards(d, ev, o)
<1>1. PICK ev \in Events, conn \in BOOLEAN, fails \in BOOLEAN :
         /\ Feed(d, ev, conn, fails) /\ Heard(d, ev)
         /\ Happened(d, ev, conn) /\ Progressed(d, ev)
  BY ProgressFeeds
<1>2. PICK h \in HostFacts, took \in BOOLEAN, o \in Outputs :
         /\ o = Run(h, ev) /\ Moved(h, ev, o) /\ Fed(d, conn, h, took, o)
         /\ Tells(o)
  BY <1>1, FeedStep DEF RecordInv
<1>3. Stepped(d, ev, conn, h, took, o) BY <1>1, <1>2 DEF Stepped
<1>4. /\ store' = store \/ (o.await.type = "persist" /\ store' = o.m.rec)
      /\ o.await.type = "persist" => o.reset = FALSE /\ o.m.rec.phase # "absent"
      /\ store'.phase = "absent" => store' = store
  BY <1>1, <1>2, Written
<1>5. /\ loaded' \in BOOLEAN /\ h.snap = runtime
      /\ \/ loaded' /\ m' = o.m /\ o.reset = FALSE
         \/ ~loaded' /\ m' = Fresh(NoRec) /\ o.await.type = "none"
      /\ store' = IF o.await.type = "persist" /\ took THEN o.m.rec ELSE store
      /\ \A e \in Drives \ {d} : flight'[e] = flight[e]
      /\ o.await.type = "none" => flight'[d].stage = "idle"
      /\ o.await.type # "none" =>
            /\ flight'[d].stage = "effect" /\ flight'[d].ev.type = o.await.type
            /\ flight'[d].took => took /\ o.await.type \in {"persist", "setTimer"}
  BY <1>2 DEF Fed
<1>6. Awaits(d, "persist")' /\ flight'[d].took => store'.phase # "absent"
  BY <1>4, <1>5 DEF Awaits
<1>7. sent' \in {sent, NotSent} BY <1>1 DEF Happened
<1>8. flight'[d].stage # "ready" BY <1>5
<1>9. Speaks(d, ev, o) BY <1>1, <1>2, <1>4, <1>5, <1>6, <1>7, <1>8 DEF Speaks
<1>10. CASE ~loaded /\ store = Unreadable
  <2>1. o = FinishOutput(Discard(h, ev)) BY <1>2, <1>10 DEF Run
  <2>2. o.m.rec = Tombstone /\ o.m.conn = "none" /\ o.await.type = "persist"
    BY <1>2, <1>10 DEF Moved
  <2>3. /\ o.client # "committed"
        /\ o.client \in Definite =>
              ev.type = "forwarded" /\ ev.cmd.kind \notin {"commit", "query"}
        /\ Honest(o.m) /\ o.m.work.task \notin CommitTasks
        /\ ~HasDeferred(o.m) /\ ~Held(o.m.rec, o.m.work)
    BY <2>1, DiscardFrank
  <2>4. Current' = o.m BY <1>5, <2>2 DEF Current
  <2>5. ~Awaits(d, "commit")' BY <1>5, <2>2 DEF Awaits
  <2>6. Discards(d, ev, o) BY <1>4, <1>10, <2>2, <2>3, <2>4, <2>5 DEF Discards
  <2> QED BY <1>9, <2>6
<1>11. CASE ~(~loaded /\ store = Unreadable)
  <2>1. Current \in Machines /\ Consistent(Current) BY <1>2, <1>11 DEF Moved
  <2>2. Orderly(Current, runtime) BY DEF RecordInv, OrderlyNow
  <2>3. ev.type = "forwarded" /\ ev.cmd.kind = "commit" => ev.cmd.pay = "none"
    BY <1>1, ForwardedBy
  <2>4. o = RunDispatch(Current, h, ev) BY <1>2, <1>11 DEF Run
  <2>5. /\ FrankReply(Current, ev, o)
        /\ o.reset = FALSE => FrankRec(Current, o) /\ FrankWork(Current, h, ev, o)
    BY <1>5, <2>1, <2>2, <2>3, <2>4, FrankSteps DEF HonestNow
  <2>6. CASE loaded'
    <3>1. GoesOn(d, ev, conn, h, o) BY <1>3, <1>11, <2>6, SteppedOn
    <3>2. Carries(d, ev, conn, h, o) BY <1>4, <1>5, <2>5, <2>6, <3>1 DEF Carries
    <3> QED BY <1>9, <3>2
  <2>7. CASE ~loaded'
    <3>1. store' = store /\ Current' = Fresh(store) BY <1>5, <2>7 DEF Current
    <3>2. Drops(d, ev, o) BY <1>5, <2>1, <2>2, <2>5, <2>7, <3>1 DEF Drops
    <3> QED BY <1>9, <3>2
  <2> QED BY <1>5, <2>6, <2>7
<1> QED BY <1>10, <1>11

\* What a successor reads from an honest record.
LEMMA FreshHonest ==
    ASSUME NEW rec, HonestRec(rec)
    PROVE  /\ Fresh(rec).rec = rec /\ Honest(Fresh(rec)) /\ Fresh(rec).conn = "none"
           /\ Fresh(rec).work.task \notin CommitTasks /\ ~HasDeferred(Fresh(rec))
           /\ ~Held(Fresh(rec).rec, Fresh(rec).work)
<1>1. /\ Fresh(rec).rec = rec /\ Fresh(rec).work = NoWork /\ Fresh(rec).deferred = NoWork
      /\ Fresh(rec).conn = "none"
  BY FreshOrderly
<1> QED BY <1>1, NoWorkHonest DEF Honest, HasDeferred, CommitTasks

\* The tombstone is honest.
LEMMA TombstoneHonest ==
    /\ Tombstone.phase = "discarded" /\ HonestRec(Tombstone)
    /\ Unreadable.phase = "unreadable" /\ HonestRec(Unreadable)
BY DEF Tombstone, Unreadable, NoRec, NoDigest, HonestRec

\* The commands and the writes of the other drives are as they were.
LEMMA AskedSpeaks ==
    ASSUME Asked, TookStored, NEW d \in Drives, NEW ev, NEW o, Speaks(d, ev, o)
    PROVE  Asked' /\ TookStored'
<1>1. /\ waiter'["client"] \in {NoCmd, waiter["client"]}
      /\ \A e \in Drives \ {d} : flight'[e] = flight[e]
      /\ flight'[d].stage # "ready"
      /\ Awaits(d, "persist")' /\ flight'[d].took => store'.phase # "absent"
      /\ store'.phase = "absent" => store' = store
  BY DEF Speaks, Tells
<1>2. ~Pending(d)' /\ \A e \in Drives \ {d} : Pending(e)' <=> Pending(e)
  BY <1>1 DEF Pending
<1>3. "client" \in Drives BY DEF Drives
<1>4. Asked' BY <1>1, <1>2, <1>3 DEF Asked
<1>5. \A e \in Drives \ {d} : Awaits(e, "persist")' <=> Awaits(e, "persist")
  BY <1>1 DEF Awaits
<1>6. TookStored' BY <1>1, <1>5 DEF TookStored
<1> QED BY <1>4, <1>6

\* A begin and an answer in doubt stay with the client's drive.
LEMMA HeldSpeaks ==
    ASSUME Asked, HeldByClient, NEW d \in Drives, NEW ev \in Events, NEW conn,
           NEW h \in HostFacts, NEW o \in Outputs, Speaks(d, ev, o),
           Carries(d, ev, conn, h, o)
    PROVE  HeldByClient'
<1> SUFFICES ASSUME Held(Current.rec, Current.work)' PROVE HeldByClient'
  BY DEF HeldByClient
<1>1. /\ waiter'["client"] \in {NoCmd, waiter["client"]} /\ Heard(d, ev)
      /\ \A e \in Drives \ {d} : flight'[e] = flight[e]
  BY DEF Speaks, Tells
<1>2. /\ GoesOn(d, ev, conn, h, o) /\ Current' = o.m /\ FrankWork(Current, h, ev, o)
      /\ o.await.type # "none" =>
            /\ flight'[d].stage = "effect" /\ flight'[d].ev.type = o.await.type
            /\ flight'[d].ev.id = h.id
  BY DEF Carries, GoesOn
<1>3. Held(o.m.rec, o.m.work) BY <1>2 DEF Held, InDoubt
<1>4. /\ o.m.work.task \in {"BeginBinding", "Reply"} /\ "client" \in Drives
      /\ NoCmd.kind # "commit"
  BY <1>3 DEF Held, InDoubt, Drives, NoCmd
<1>5. CASE /\ o.m.work = Current.work /\ o.m.rec = Current.rec
           /\ ~Answered(Current, ev) /\ ev.type # "abandon"
  <2>1. Held(Current.rec, Current.work) BY <1>3, <1>5
  <2>2. /\ \/ /\ Awaits("client", AwaitedBy(Current.work.task))
              /\ flight["client"].ev.id = Current.work.id
           \/ flight["client"].stage = "ready" /\ flight["client"].ev.type = "abandon"
        /\ waiter["client"].kind = "commit" =>
              /\ InDoubt(Current.rec, Current.work)
              /\ waiter["client"].seq # Current.rec.seq
    BY <2>1 DEF HeldByClient
  <2>3. d # "client"
    <3> SUFFICES ASSUME d = "client" PROVE FALSE OBVIOUS
    <3>1. HasWork(Current) BY <1>4, <1>5 DEF HasWork
    <3>2. CASE /\ Awaits("client", AwaitedBy(Current.work.task))
               /\ flight["client"].ev.id = Current.work.id
      <4>1. ev.type = AwaitedBy(Current.work.task) /\ ev.id = Current.work.id
        BY <1>1, <3>2 DEF Heard, Awaits
      <4> QED BY <1>5, <3>1, <4>1 DEF Answered
    <3>3. CASE flight["client"].stage = "ready" /\ flight["client"].ev.type = "abandon"
      BY <1>1, <1>5, <3>3 DEF Heard, Awaits
    <3> QED BY <2>2, <3>2, <3>3
  <2>4. flight'["client"] = flight["client"] BY <1>1, <1>4, <2>3
  <2>5. Current'.rec = Current.rec /\ Current'.work = Current.work BY <1>2, <1>5
  <2> HIDE DEF Current
  <2> QED BY <1>1, <1>4, <2>2, <2>4, <2>5 DEF HeldByClient, Awaits, InDoubt
<1>6. CASE /\ ev.type = "forwarded" /\ ev.cmd.kind # "query"
           /\ o.m.work.id = h.id /\ o.await.type = AwaitedBy(o.m.work.task)
           /\ ev.cmd.kind = "commit" =>
                 InDoubt(o.m.rec, o.m.work) /\ ev.cmd.seq # o.m.rec.seq
  <2>1. d = "client" /\ waiter["client"] \in {NoCmd, ev.cmd}
    BY <1>1, <1>6, <1>4, ForwardedBy
  <2>2. AwaitedBy(o.m.work.task) # "none" BY <1>4 DEF AwaitedBy
  <2>3. /\ flight'["client"].stage = "effect" /\ flight'["client"].ev.id = o.m.work.id
        /\ flight'["client"].ev.type = AwaitedBy(o.m.work.task)
    BY <1>2, <1>6, <2>1, <2>2
  <2> QED BY <1>1, <1>2, <1>4, <1>6, <2>1, <2>3 DEF HeldByClient, Awaits, InDoubt
<1> QED BY <1>2, <1>3, <1>5, <1>6 DEF FrankWork

\* A step of a drive keeps what callers wait for.
LEMMA CallerSpeaks ==
    ASSUME CallerInv, NEW d \in Drives, NEW ev \in Events, NEW conn,
           NEW h \in HostFacts, NEW o \in Outputs, Speaks(d, ev, o),
           Carries(d, ev, conn, h, o) \/ Drops(d, ev, o) \/ Discards(d, ev, o)
    PROVE  CallerInv'
<1>1. HonestNow /\ Asked /\ HeldByClient /\ TookStored BY DEF CallerInv
<1>2. Asked' /\ TookStored' BY <1>1, AskedSpeaks
<1>3. CASE Carries(d, ev, conn, h, o)
  <2>1. HeldByClient' BY <1>1, <1>3, HeldSpeaks
  <2>2. /\ Current' = o.m /\ store' \in {store, o.m.rec}
        /\ HonestRec(o.m.rec) /\ HonestWork(o.m.rec, o.m.work) /\ HonestDeferred(o.m.deferred)
    BY <1>3 DEF Carries, GoesOn, FrankRec, FrankWork
  <2>3. HonestNow' BY <1>1, <2>2 DEF HonestNow, Honest, HonestRec, HonestWork, HonestDeferred
  <2> QED BY <1>2, <2>1, <2>3 DEF CallerInv
<1>4. CASE Drops(d, ev, o)
  <2>1. Current' = Fresh(store) /\ store' = store BY <1>4 DEF Drops
  <2>2. Honest(Fresh(store)) /\ ~Held(Fresh(store).rec, Fresh(store).work)
    BY <1>1, FreshHonest DEF HonestNow
  <2>3. HonestNow' /\ HeldByClient'
    BY <1>1, <2>1, <2>2 DEF HonestNow, HeldByClient, Honest, Held, HonestRec, HonestWork,
       HonestDeferred, InDoubt
  <2> QED BY <1>2, <2>3 DEF CallerInv
<1>5. CASE Discards(d, ev, o)
  <2>1. /\ Current' = o.m /\ store' \in {store, Tombstone} /\ Honest(o.m)
        /\ ~Held(o.m.rec, o.m.work)
    BY <1>5 DEF Discards
  <2>2. HonestNow' /\ HeldByClient'
    BY <1>1, <2>1, TombstoneHonest DEF HonestNow, HeldByClient, Honest, Held, HonestRec,
       HonestWork, HonestDeferred, InDoubt
  <2> QED BY <1>2, <2>2 DEF CallerInv
<1> QED BY <1>3, <1>4, <1>5

(***************************************************************************)
(* The other steps of the owner                                            *)
(***************************************************************************)
\* Nothing is asked, told, sent or stored; the state in memory may be dropped,
\* drives may stop, step an event of their own or a query, and the database may
\* apply the COMMIT that was sent.
Pausing(e) ==
    \/ flight'[e] = flight[e] \/ flight'[e].stage = "idle"
    \/ /\ flight'[e].stage = "ready"
       /\ flight'[e].ev.type = "forwarded" =>
             e # "client" /\ flight'[e].ev.cmd.kind = "query"
Pauses ==
    /\ store' = store /\ sent' = sent /\ told' = told
    /\ db' = db \/ (db # "committed" /\ (db' = "committed" => sent # NotSent))
    /\ waiter'["client"] \in {NoCmd, waiter["client"]}
    /\ \A e \in Drives : Pausing(e)
    /\ \/ Current' = Fresh(store)
       \/ /\ Current' = Current
          /\ \/ flight'["client"] = flight["client"]
             \/ flight'["client"].stage = "ready" /\ flight'["client"].ev.type = "abandon"

\* A client's command arrives.
Asks(cmd) ==
    /\ store' = store /\ sent' = sent /\ db' = db /\ Current' = Current
    /\ told' \subseteq told
    /\ \A t \in told' : cmd.kind = "commit" /\ t.answer = "rejected" => ~Is(cmd, t)
    /\ \A e \in Drives \ {"client"} : flight'[e] = flight[e]
    /\ flight["client"].stage = "idle" /\ flight'["client"].stage = "ready"
    /\ flight'["client"].ev.type = "forwarded" /\ flight'["client"].ev.cmd = cmd
    /\ waiter'["client"] = cmd

\* COMMIT is handed to the database.
Hands(d) ==
    /\ store' = store /\ db' = db /\ Current' = Current /\ told' = told
    /\ waiter' = waiter /\ Awaits(d, "commit")
    /\ sent' = [seq |-> flight[d].arg, auth |-> store.auth]
    /\ \A e \in Drives \ {d} : flight'[e] = flight[e]
    /\ flight'[d].stage = flight[d].stage /\ flight'[d].ev = flight[d].ev
    /\ flight'[d].arg = flight[d].arg

\* The owner is lost, and its successor cannot read the record.
Forgets ==
    /\ store' = Unreadable /\ store.phase # "absent" /\ sent' = sent /\ db' = db
    /\ told' = told /\ Current' = Fresh(Unreadable)
    /\ \A e \in Drives : flight'[e].stage = "idle"

\* One drive starts with an event of its own, or stops.
LEMMA OnePauses ==
    ASSUME FedTypes, NEW d \in Drives, NEW f, flight' = [flight EXCEPT ![d] = f],
           \/ f.stage = "idle"
           \/ /\ f.stage = "ready"
              /\ f.ev.type = "forwarded" => d # "client" /\ f.ev.cmd.kind = "query"
    PROVE  /\ \A e \in Drives : Pausing(e)
           /\ flight'[d] = f /\ \A e \in Drives \ {d} : flight'[e] = flight[e]
<1>1. flight \in [Drives -> Flights] BY DEF FedTypes
<1>2. flight'[d] = f /\ \A e \in Drives \ {d} : flight'[e] = flight[e] BY <1>1
<1> QED BY <1>2 DEF Pausing

\* The types of the events that drives start with.
LEMMA StartTypes ==
    /\ \A cmd, dying : Ready(ForwardedEvent(cmd), dying).ev.type = "forwarded"
    /\ \A dying : /\ Ready(TimerEvent, dying).ev.type = "timerFired"
                  /\ Ready(NoEvent, dying).ev.type = "abandon"
BY DEF Ready, ForwardedEvent, TimerEvent, NoEvent, Idling

\* An engine fault, as callers see it.
LEMMA FaultPauses ==
    ASSUME FedTypes, NEW d \in Drives, EngineFault(d)
    PROVE  Pauses
<1>1. /\ store' = store /\ sent' = sent /\ told' = told /\ db' = db
  BY DEF EngineFault, answers, world
<1>2. "client" \in Drives /\ "client" \in ServedLanes BY DEF Drives, ServedLanes
<1>3. CASE flight[d].dying
  <2>1. /\ flight' = [flight EXCEPT ![d] = Idling] /\ loaded' = FALSE
        /\ waiter' = [l \in ServedLanes |-> IF l = d THEN NoCmd ELSE waiter[l]]
    BY <1>3 DEF EngineFault
  <2>2. \A e \in Drives : Pausing(e) BY <2>1, OnePauses, StartEvents
  <2>3. Current' = Fresh(store) BY <1>1, <2>1 DEF Current
  <2>4. waiter'["client"] \in {NoCmd, waiter["client"]} BY <1>2, <2>1
  <2> QED BY <1>1, <2>2, <2>3, <2>4 DEF Pauses
<1>4. CASE ~flight[d].dying
  <2> DEFINE f == Ready(NoEvent, TRUE)
  <2>1. flight' = [flight EXCEPT ![d] = f] /\ m' = m /\ loaded' = loaded /\ waiter' = waiter
    BY <1>4 DEF EngineFault
  <2>2. f.stage = "ready" /\ f.ev.type = "abandon" BY StartEvents, StartTypes
  <2> HIDE DEF f
  <2>3. /\ \A e \in Drives : Pausing(e)
        /\ flight'[d] = f /\ \A e \in Drives \ {d} : flight'[e] = flight[e]
    BY <2>1, <2>2, OnePauses
  <2>4. Current' = Current BY <1>1, <2>1 DEF Current
  <2>5. \/ flight'["client"] = flight["client"]
        \/ flight'["client"].stage = "ready" /\ flight'["client"].ev.type = "abandon"
    BY <1>2, <2>2, <2>3
  <2> QED BY <1>1, <2>1, <2>3, <2>4, <2>5 DEF Pauses
<1> QED BY <1>3, <1>4

\* Every step of the owner, as callers see it.
LEMMA AnswerSteps ==
    ASSUME TypeOK, RecordInv, [Next]_vars
    PROVE  \/ Pauses \/ Forgets
           \/ \E cmd \in ClientInputs : Asks(cmd)
           \/ \E d \in Drives : Progress(d) \/ Hands(d)
<1>0. FedTypes /\ WorldTypes BY TypeParts
<1>1. flight \in [Drives -> Flights] /\ waiter \in [ServedLanes -> Commands]
  BY <1>0 DEF FedTypes
<1>2. {"client", "callback", "timer"} \subseteq Drives BY DEF Drives
<1> USE DEF memory, world, bounds, progress, answers
<1>3. CASE UNCHANGED vars \/ DbApplies \/ DbAborts \/ DeadlinePasses
  <2>1. /\ flight' = flight /\ store' = store /\ sent' = sent /\ m' = m
        /\ loaded' = loaded /\ told' = told /\ waiter' = waiter
        /\ db' = db \/ (db # "committed" /\ (db' = "committed" => sent # NotSent))
    BY <1>3 DEF vars, DbApplies, DbAborts, DeadlinePasses
  <2>2. Current' = Current BY <2>1 DEF Current
  <2> QED BY <2>1, <2>2 DEF Pauses, Pausing
<1>4. CASE ClientArrives
  <2>1. PICK cmd \in ClientInputs : Arrive("client", cmd) BY <1>4 DEF ClientArrives
  <2> DEFINE f == Ready(ForwardedEvent(cmd), FALSE)
  <2>2. /\ flight' = [flight EXCEPT !["client"] = f] /\ flight["client"].stage = "idle"
        /\ waiter' = [waiter EXCEPT !["client"] = cmd]
        /\ store' = store /\ sent' = sent /\ m' = m /\ loaded' = loaded /\ db' = db
        /\ told' = {t \in told : ~(/\ cmd.kind = "commit" /\ t.answer = "rejected"
                                   /\ t.seq = cmd.seq /\ t.auth = cmd.auth)}
    BY <2>1 DEF Arrive
  <2>3. f.stage = "ready" /\ f.ev.type = "forwarded" /\ f.ev.cmd = cmd
    BY DEF Ready, ForwardedEvent, NoEvent, Idling
  <2> HIDE DEF f
  <2>4. /\ flight'["client"] = f /\ waiter'["client"] = cmd
        /\ \A e \in Drives \ {"client"} : flight'[e] = flight[e]
    BY <1>1, <1>2, <2>2 DEF ServedLanes
  <2>5. Current' = Current BY <2>2 DEF Current
  <2>6. Asks(cmd) BY <2>2, <2>3, <2>4, <2>5 DEF Asks, Is
  <2> QED BY <2>6
<1>5. CASE CallbackArrives
  <2>1. PICK q \in CallbackInputs : Arrive("callback", q) BY <1>5 DEF CallbackArrives
  <2> DEFINE f == Ready(ForwardedEvent(q), FALSE)
  <2>2. /\ flight' = [flight EXCEPT !["callback"] = f]
        /\ waiter' = [waiter EXCEPT !["callback"] = q]
        /\ store' = store /\ sent' = sent /\ m' = m /\ loaded' = loaded /\ db' = db
        /\ told' = {t \in told : ~(/\ q.kind = "commit" /\ t.answer = "rejected"
                                   /\ t.seq = q.seq /\ t.auth = q.auth)}
    BY <2>1 DEF Arrive
  <2>3. f.stage = "ready" /\ f.ev.cmd.kind = "query" /\ q.kind = "query"
    <3>1. q.kind = "query" BY InputsAssumption
    <3>2. f.stage = "ready" /\ f.ev.cmd = q BY DEF Ready, ForwardedEvent, NoEvent, Idling
    <3> QED BY <3>1, <3>2
  <2> HIDE DEF f
  <2>4. told' = told BY <2>2, <2>3
  <2>5. /\ \A e \in Drives : Pausing(e)
        /\ \A e \in Drives \ {"callback"} : flight'[e] = flight[e]
    BY <1>0, <1>2, <2>2, <2>3, OnePauses
  <2>6. waiter'["client"] = waiter["client"] /\ flight'["client"] = flight["client"]
    BY <1>1, <1>2, <2>2, <2>5 DEF ServedLanes
  <2>7. Current' = Current BY <2>2 DEF Current
  <2> QED BY <2>2, <2>4, <2>5, <2>6, <2>7 DEF Pauses
<1>6. CASE TimerFires
  <2> DEFINE f == Ready(TimerEvent, FALSE)
  <2>1. /\ flight' = [flight EXCEPT !["timer"] = f] /\ waiter' = waiter /\ told' = told
        /\ store' = store /\ sent' = sent /\ m' = m /\ loaded' = loaded /\ db' = db
    BY <1>6 DEF TimerFires
  <2>2. f.stage = "ready" /\ f.ev.type = "timerFired" BY StartEvents, StartTypes
  <2> HIDE DEF f
  <2>3. /\ \A e \in Drives : Pausing(e)
        /\ \A e \in Drives \ {"timer"} : flight'[e] = flight[e]
    BY <1>0, <1>2, <2>1, <2>2, OnePauses
  <2>4. flight'["client"] = flight["client"] BY <1>2, <2>3
  <2>5. Current' = Current BY <2>1 DEF Current
  <2> QED BY <2>1, <2>3, <2>4, <2>5 DEF Pauses
<1>7. CASE \E d \in Drives : SendCommit(d)
  <2>1. PICK d \in Drives : SendCommit(d) BY <1>7
  <2>2. /\ Awaits(d, "commit") /\ flight' = [flight EXCEPT ![d].took = TRUE]
        /\ sent' = [seq |-> flight[d].arg, auth |-> store.auth] /\ told' = told
        /\ store' = store /\ m' = m /\ loaded' = loaded /\ db' = db /\ waiter' = waiter
    BY <2>1 DEF SendCommit
  <2>3. flight[d] \in Flights BY <1>1
  <2>4. /\ \A e \in Drives \ {d} : flight'[e] = flight[e]
        /\ flight'[d].stage = flight[d].stage /\ flight'[d].ev = flight[d].ev
        /\ flight'[d].arg = flight[d].arg
    BY <1>1, <2>2, <2>3 DEF Flights
  <2>5. Current' = Current BY <2>2 DEF Current
  <2>6. Hands(d) BY <2>2, <2>4, <2>5 DEF Hands
  <2> QED BY <2>6
<1>8. CASE \E d \in Drives : EngineFault(d) BY <1>0, <1>8, FaultPauses
<1>9. CASE Crash
  <2>1. /\ loaded' = FALSE /\ sent' = sent /\ told' = told /\ db' = db
        /\ flight' = [d \in Drives |-> Idling] /\ waiter' = [l \in ServedLanes |-> NoCmd]
        /\ store' \in {store, IF store = NoRec THEN NoRec ELSE Unreadable}
    BY <1>9 DEF Crash
  <2>2. \A e \in Drives : flight'[e].stage = "idle" BY <2>1, StartEvents
  <2>3. waiter'["client"] = NoCmd BY <2>1 DEF ServedLanes
  <2>4. Current' = Fresh(store') BY <2>1 DEF Current
  <2>5. CASE store' = store BY <2>1, <2>2, <2>3, <2>4, <2>5 DEF Pauses, Pausing
  <2>6. CASE store' # store
    <3>1. store' = Unreadable /\ store # NoRec /\ store # Unreadable BY <2>1, <2>6
    <3>2. store.phase # "absent" BY <3>1 DEF RecordInv, NotYetStored
    <3> QED BY <2>1, <2>2, <2>4, <3>1, <3>2 DEF Forgets
  <2> QED BY <2>5, <2>6
<1> QED BY <1>3, <1>4, <1>5, <1>6, <1>7, <1>8, <1>9 DEF Next

\* What callers wait for is kept by the other steps, too.
LEMMA CallerPauses ==
    ASSUME CallerInv, Pauses
    PROVE  CallerInv'
<1>1. HonestNow /\ Asked /\ HeldByClient /\ TookStored BY DEF CallerInv
<1>2. /\ store' = store /\ waiter'["client"] \in {NoCmd, waiter["client"]}
      /\ \A e \in Drives : Pausing(e)
      /\ \/ Current' = Fresh(store)
         \/ /\ Current' = Current
            /\ \/ flight'["client"] = flight["client"]
               \/ /\ flight'["client"].stage = "ready"
                  /\ flight'["client"].ev.type = "abandon"
  BY DEF Pauses
<1>3. "client" \in Drives /\ NoCmd.kind # "commit" BY DEF Drives, NoCmd
<1>4. Asked'
  <2>1. \A e \in Drives : Pending(e)' =>
           \/ flight'[e] = flight[e] /\ Pending(e)
           \/ e # "client" /\ flight'[e].ev.cmd.kind = "query"
    BY <1>2 DEF Pausing, Pending
  <2> QED BY <1>1, <1>2, <1>3, <2>1 DEF Asked
<1>5. TookStored'
  <2>1. \A e \in Drives : Awaits(e, "persist")' =>
           flight'[e] = flight[e] /\ Awaits(e, "persist")
    BY <1>2 DEF Pausing, Awaits
  <2> QED BY <1>1, <1>2, <2>1 DEF TookStored
<1>6. CASE Current' = Fresh(store)
  <2>1. Honest(Fresh(store)) /\ ~Held(Fresh(store).rec, Fresh(store).work)
    BY <1>1, FreshHonest DEF HonestNow
  <2>2. HonestNow' /\ HeldByClient'
    BY <1>1, <1>2, <1>6, <2>1 DEF HonestNow, HeldByClient, Honest, Held, HonestRec,
       HonestWork, HonestDeferred, InDoubt
  <2> QED BY <1>4, <1>5, <2>2 DEF CallerInv
<1>7. CASE Current' # Fresh(store)
  <2>1. /\ Current' = Current
        /\ \/ flight'["client"] = flight["client"]
           \/ flight'["client"].stage = "ready" /\ flight'["client"].ev.type = "abandon"
    BY <1>2, <1>7
  <2>2. HonestNow'
    BY <1>1, <1>2, <2>1 DEF HonestNow, Honest, HonestRec, HonestWork, HonestDeferred
  <2>3. HeldByClient'
    <3> SUFFICES ASSUME Held(Current.rec, Current.work)' PROVE HeldByClient'
      BY DEF HeldByClient
    <3>1. Held(Current.rec, Current.work) BY <2>1 DEF Held, InDoubt
    <3>2. /\ \/ /\ Awaits("client", AwaitedBy(Current.work.task))
                /\ flight["client"].ev.id = Current.work.id
             \/ flight["client"].stage = "ready" /\ flight["client"].ev.type = "abandon"
          /\ waiter["client"].kind = "commit" =>
                /\ InDoubt(Current.rec, Current.work)
                /\ waiter["client"].seq # Current.rec.seq
      BY <1>1, <3>1 DEF HeldByClient
    <3> QED BY <1>2, <1>3, <2>1, <3>2 DEF HeldByClient, Awaits, InDoubt
  <2> QED BY <1>4, <1>5, <2>2, <2>3 DEF CallerInv
<1> QED BY <1>6, <1>7

\* A client's command arrives when nothing is held for the client.
LEMMA CallerAsks ==
    ASSUME CallerInv, NEW cmd \in ClientInputs, Asks(cmd)
    PROVE  CallerInv'
<1>1. HonestNow /\ Asked /\ HeldByClient /\ TookStored BY DEF CallerInv
<1>2. /\ store' = store /\ Current' = Current /\ waiter'["client"] = cmd
      /\ \A e \in Drives \ {"client"} : flight'[e] = flight[e]
      /\ flight["client"].stage = "idle" /\ flight'["client"].stage = "ready"
      /\ flight'["client"].ev.type = "forwarded" /\ flight'["client"].ev.cmd = cmd
  BY DEF Asks
<1>3. "client" \in Drives BY DEF Drives
<1>4. ~Held(Current.rec, Current.work) BY <1>1, <1>2 DEF HeldByClient, Awaits
<1>5. HeldByClient' BY <1>2, <1>4 DEF HeldByClient, Held, InDoubt
<1>6. HonestNow'
  BY <1>1, <1>2 DEF HonestNow, Honest, HonestRec, HonestWork, HonestDeferred
<1>7. Asked' BY <1>1, <1>2, <1>3 DEF Asked, Pending
<1>8. TookStored' BY <1>1, <1>2, <1>3 DEF TookStored, Awaits
<1> QED BY <1>5, <1>6, <1>7, <1>8 DEF CallerInv

\* Handing COMMIT to the database is no answer.
LEMMA CallerHands ==
    ASSUME CallerInv, NEW d \in Drives, Hands(d)
    PROVE  CallerInv'
<1>1. HonestNow /\ Asked /\ HeldByClient /\ TookStored BY DEF CallerInv
<1>2. /\ store' = store /\ Current' = Current /\ waiter' = waiter /\ Awaits(d, "commit")
      /\ \A e \in Drives \ {d} : flight'[e] = flight[e]
      /\ flight'[d].stage = flight[d].stage /\ flight'[d].ev = flight[d].ev
  BY DEF Hands
<1>3. \A e \in Drives : flight'[e].stage = flight[e].stage /\ flight'[e].ev = flight[e].ev
  BY <1>2
<1>4. HonestNow'
  BY <1>1, <1>2 DEF HonestNow, Honest, HonestRec, HonestWork, HonestDeferred
<1>5. "client" \in Drives BY DEF Drives
<1>6. HeldByClient' BY <1>1, <1>2, <1>3, <1>5 DEF HeldByClient, Held, InDoubt, Awaits
<1>7. Asked' BY <1>1, <1>2, <1>3, <1>5 DEF Asked, Pending
<1>8. TookStored' BY <1>1, <1>2, <1>3 DEF TookStored, Awaits
<1> QED BY <1>4, <1>6, <1>7, <1>8 DEF CallerInv

\* A successor that cannot read the record waits for nobody.
LEMMA CallerForgets ==
    ASSUME CallerInv, Forgets
    PROVE  CallerInv'
<1>1. /\ store' = Unreadable /\ Current' = Fresh(Unreadable)
      /\ \A e \in Drives : flight'[e].stage = "idle"
  BY DEF Forgets
<1>2. /\ HonestRec(Unreadable) /\ Honest(Fresh(Unreadable))
      /\ ~Held(Fresh(Unreadable).rec, Fresh(Unreadable).work)
  BY FreshHonest, TombstoneHonest
<1>3. HonestNow' /\ HeldByClient'
  BY <1>1, <1>2 DEF HonestNow, HeldByClient, Honest, Held, HonestRec, HonestWork,
     HonestDeferred, InDoubt
<1>4. Asked' /\ TookStored' BY <1>1 DEF Asked, TookStored, Pending, Awaits, Drives
<1> QED BY <1>3, <1>4 DEF CallerInv

(***************************************************************************)
(* The COMMIT that is awaited, or was sent                                 *)
(***************************************************************************)
\* The record of a COMMIT that may have been sent says so, before and after a
\* step.
LEMMA SealedNow ==
    /\ CommitProtocol /\ CommitPossible /\ Current \in Machines =>
          Current.rec.phase \in Sealing
    /\ CommitProtocol' /\ CommitPossible' /\ Current' \in Machines =>
          Current'.rec.phase \in Sealing
<1>1. \A x \in Machines : x.rec.phase # "unreadable"
  BY MachineFields DEF Records, Phases, HasDeadline, Terminal
<1>2. Fresh(store).rec = store /\ Fresh(store').rec = store' BY FreshOrderly
<1>3. ASSUME CommitProtocol, CommitPossible, Current \in Machines
      PROVE  Current.rec.phase \in Sealing
  BY <1>1, <1>2, <1>3 DEF Current, CommitProtocol, SealedByCommit, Sealed
<1>4. ASSUME CommitProtocol', CommitPossible', Current' \in Machines
      PROVE  Current'.rec.phase \in Sealing
  <2>1. /\ store'.phase \in Sealing \cup {"unreadable"}
        /\ loaded' => m'.rec.phase \in Sealing
    BY <1>4 DEF CommitProtocol, SealedByCommit, Sealed
  <2>2. Current' = IF loaded' THEN m' ELSE Fresh(store') BY DEF Current
  <2> QED BY <1>1, <1>2, <1>4, <2>1, <2>2
<1> QED BY <1>3, <1>4

\* What is committed was sent, and stays committed.
LEMMA CommittedStays ==
    ASSUME TypeOK, CommitProtocol, RecordInv, [Next]_vars,
           db = "committed" => sent # NotSent
    PROVE  /\ db' = "committed" => sent' # NotSent
           /\ db = "committed" => db' = "committed"
BY StoreSteps

\* A step of the machine keeps the COMMIT's caller and sequence.
LEMMA TrackedOn ==
    ASSUME FedTypes, CommitProtocol, CommitProtocol', RecordInv, Tracked,
           NEW d \in Drives, NEW ev \in Events, NEW conn, NEW h \in HostFacts,
           NEW o \in Outputs, Speaks(d, ev, o), Carries(d, ev, conn, h, o)
    PROVE  Tracked'
<1> DEFINE c == Current
<1>1. /\ SentAs(c.rec) /\ SentAs(store) /\ AwaitedAs(c.rec) /\ AwaitedAs(store) /\ Agrees
  BY DEF Tracked
<1>2. /\ c \in Machines /\ o.m \in Machines /\ Current' = o.m /\ Orderly(c, runtime)
      /\ RecordSteps(c, ev, o) /\ UseSteps(c, h, ev, o) /\ FrankRec(c, o)
      /\ Heard(d, ev) /\ GoesOn(d, ev, conn, h, o)
  BY DEF Carries, GoesOn
<1>3. /\ sent' \in {sent, NotSent} /\ store' \in {store, o.m.rec}
      /\ \A e \in Drives \ {d} : flight'[e] = flight[e]
  BY DEF Speaks, Carries
<1>4. /\ o.await.type = "none" => flight'[d].stage = "idle"
      /\ o.await.type # "none" =>
            /\ flight'[d].stage = "effect" /\ flight'[d].ev.type = o.await.type
            /\ flight'[d].arg = o.await.arg
  BY <1>2 DEF GoesOn
<1>5. c.rec \in Records /\ o.m.rec \in Records BY <1>2, MachineFields
<1>6. CommitPossible => c.rec.phase \in Sealing BY <1>2, SealedNow
<1>7. CommitPossible' => o.m.rec.phase \in Sealing BY <1>2, SealedNow
<1>8. Answered(c, ev) => Awaits(d, AwaitedBy(c.work.task)) /\ flight[d].ev.id = c.work.id
  BY <1>2, AnsweredFacts
<1>9. c.rec.phase = "absent" => store.phase = "absent" BY <1>2, AbsentStored
<1>10. c.work.task # "none" => loaded /\ c = m BY CurrentFacts
<1>11. store.phase = "committing" => c.rec.phase \in Reach("committing")
  BY DEF RecordInv, MemoryFollows, Unended, HasDeadline
<1> HIDE DEF c
<1>12. sent' # NotSent /\ o.m.rec.phase \notin {"discarded", "unreadable"} =>
          /\ o.m.rec.auth = sent'.auth
          /\ o.m.rec.phase \in Uncertain => o.m.rec.seq = sent'.seq
          /\ o.m.rec.phase = "committed" => o.m.rec.seq = sent'.seq + 1
  <2> SUFFICES ASSUME sent' # NotSent, o.m.rec.phase \notin {"discarded", "unreadable"}
               PROVE  /\ o.m.rec.auth = sent'.auth
                      /\ o.m.rec.phase \in Uncertain => o.m.rec.seq = sent'.seq
                      /\ o.m.rec.phase = "committed" => o.m.rec.seq = sent'.seq + 1
    OBVIOUS
  <2>1. sent' = sent /\ sent # NotSent BY <1>3
  <2>2. c.rec.phase \in Sealing BY <1>6, <2>1 DEF CommitPossible
  <2>3. c.rec.phase \in Terminal => o.m.rec = c.rec BY <1>2 DEF RecordSteps
  <2>4. c.rec.phase \in {"committing", "commit_unknown", "committed"}
    BY <2>2, <2>3 DEF Sealing, Terminal
  <2>5. /\ c.rec.auth = sent.auth
        /\ c.rec.phase \in Uncertain => c.rec.seq = sent.seq
        /\ c.rec.phase = "committed" => c.rec.seq = sent.seq + 1
    BY <1>1, <2>1, <2>4 DEF SentAs
  <2>6. o.m.rec.auth = c.rec.auth BY <1>2, <2>4 DEF FrankRec
  <2>7. CASE c.rec.phase = "committed" BY <2>1, <2>3, <2>5, <2>7 DEF Terminal, Uncertain
  <2>8. CASE c.rec.phase \in Uncertain
    <3>1. o.m.rec.phase \in Uncertain => o.m.rec.seq = c.rec.seq
      BY <1>2 DEF FrankRec, Uncertain
    <3>2. o.m.rec.phase = "committed" => o.m.rec.seq = c.rec.seq + 1
      BY <1>2, <2>8 DEF FrankRec, Uncertain
    <3> QED BY <2>1, <2>5, <2>6, <2>8, <3>1, <3>2
  <2> QED BY <2>4, <2>7, <2>8 DEF Uncertain
<1>13. Awaits(d, "commit")' =>
          /\ AnsweredAs(c, ev, "CommitPersist", "ok") /\ o.m.rec = c.rec
          /\ flight'[d].arg = c.rec.seq /\ c.rec.phase = "committing"
  <2> SUFFICES ASSUME Awaits(d, "commit")'
               PROVE  /\ AnsweredAs(c, ev, "CommitPersist", "ok") /\ o.m.rec = c.rec
                      /\ flight'[d].arg = c.rec.seq /\ c.rec.phase = "committing"
    OBVIOUS
  <2>1. o.await.type = "commit" /\ flight'[d].arg = o.await.arg BY <1>4 DEF Awaits
  <2>2. /\ AnsweredAs(c, ev, "CommitPersist", "ok") /\ o.m.rec = c.rec
        /\ o.await.arg = c.rec.seq
    BY <1>2, <2>1 DEF UseSteps
  <2>3. c.rec.phase = "committing" BY <1>2, <2>2 DEF AnsweredAs, Orderly, Fits, At
  <2> QED BY <2>1, <2>2, <2>3
<1>14. \A e \in Drives : Awaits(e, "commit")' =>
          o.m.rec.phase \in Uncertain /\ o.m.rec.seq = flight'[e].arg
  <2> SUFFICES ASSUME NEW e \in Drives, Awaits(e, "commit")'
               PROVE  o.m.rec.phase \in Uncertain /\ o.m.rec.seq = flight'[e].arg
    OBVIOUS
  <2>1. CASE e = d BY <1>13, <2>1 DEF Uncertain
  <2>2. CASE e # d
    <3>1. flight'[e] = flight[e] /\ Awaits(e, "commit") BY <1>3, <2>2 DEF Awaits
    <3>2. c.rec.phase \in Uncertain /\ c.rec.seq = flight[e].arg
      BY <1>1, <3>1 DEF AwaitedAs
    <3>3. o.m.rec.phase \in Sealing BY <1>7 DEF CommitPossible
    <3>4. ~AnsweredAs(c, ev, "CommitSend", "ok")
      <4> SUFFICES ASSUME AnsweredAs(c, ev, "CommitSend", "ok") PROVE FALSE OBVIOUS
      <4>1. Awaits(d, "commit") BY <1>8 DEF AnsweredAs, AwaitedBy
      <4> QED BY <2>2, <3>1, <4>1 DEF CommitProtocol, SentOnce
    <3>5. o.m.rec.phase \in Uncertain
      BY <1>2, <3>2, <3>3, <3>4
      DEF RecordSteps, Leads, Uncertain, Sealing, Terminal, Endings
    <3>6. o.m.rec.seq = c.rec.seq BY <1>2, <3>5 DEF FrankRec, Uncertain
    <3> QED BY <3>1, <3>2, <3>5, <3>6
  <2> QED BY <2>1, <2>2
<1>15. \A e \in Drives : Awaits(e, "commit")' =>
          store'.phase \in Uncertain /\ store'.seq = flight'[e].arg
  <2> SUFFICES ASSUME NEW e \in Drives, Awaits(e, "commit")', store' = store
               PROVE  store.phase \in Uncertain /\ store.seq = flight'[e].arg
    BY <1>3, <1>14
  <2>1. CASE e = d
    <3>1. /\ AnsweredAs(c, ev, "CommitPersist", "ok") /\ flight'[d].arg = c.rec.seq
          /\ c.rec.phase = "committing"
      BY <1>13, <2>1
    <3>2. loaded /\ c = m /\ ev.type = "persist" /\ ev.result = "ok"
      BY <1>10, <3>1 DEF AnsweredAs, Answered, AwaitedBy
    <3>3. Awaits(d, "persist") /\ flight[d].took /\ flight[d].ev.id = m.work.id
      BY <1>2, <1>8, <3>1, <3>2 DEF AnsweredAs, AwaitedBy, Heard, EffectTypes
    <3>4. store.phase = "committing"
      BY <3>1, <3>2, <3>3 DEF CommitProtocol, AnnouncedFirst, AnsweredAs
    <3>5. store.seq = c.rec.seq BY <1>1, <3>1, <3>4 DEF Agrees, c
    <3> QED BY <2>1, <3>1, <3>4, <3>5 DEF Uncertain
  <2>2. CASE e # d
    <3>1. flight'[e] = flight[e] /\ Awaits(e, "commit") BY <1>3, <2>2 DEF Awaits
    <3> QED BY <1>1, <3>1 DEF AwaitedAs
  <2> QED BY <2>1, <2>2
<1>16. /\ store'.phase \notin {"absent", "unreadable", "discarded"} =>
             o.m.rec.auth = store'.auth
       /\ store'.phase = "committing" /\ o.m.rec.phase = "committing" =>
             o.m.rec.seq = store'.seq
  <2>1. CASE store' = o.m.rec BY <2>1
  <2>2. CASE store' = store
    <3>1. ASSUME store.phase \notin {"absent", "unreadable", "discarded"}
          PROVE  o.m.rec.auth = store.auth
      <4>1. c.rec.phase # "absent" /\ c.rec.auth = store.auth
        BY <1>1, <1>9, <3>1 DEF Agrees, c
      <4> QED BY <1>2, <4>1 DEF FrankRec
    <3>2. ASSUME store.phase = "committing", o.m.rec.phase = "committing"
          PROVE  o.m.rec.seq = store.seq
      <4>1. c.rec.phase = "committing"
        BY <1>2, <1>11, <3>2, ReachFacts DEF RecordSteps, Endings, Terminal
      <4>2. c.rec.seq = store.seq BY <1>1, <3>2, <4>1 DEF Agrees, c
      <4> QED BY <1>2, <3>2, <4>2 DEF FrankRec
    <3> QED BY <2>2, <3>1, <3>2
  <2> QED BY <1>3, <2>1, <2>2
<1>17. SentAs(Current.rec)' BY <1>2, <1>12 DEF SentAs
<1>18. SentAs(store)' BY <1>1, <1>3, <1>12 DEF SentAs
<1>19. AwaitedAs(Current.rec)' BY <1>2, <1>14 DEF AwaitedAs
<1>20. AwaitedAs(store)' BY <1>15 DEF AwaitedAs
<1>21. Agrees' BY <1>2, <1>16 DEF Agrees
<1> QED BY <1>17, <1>18, <1>19, <1>20, <1>21 DEF Tracked

\* The state is dropped: the successor's record is the one in the store.
LEMMA TrackedFresh ==
    ASSUME Tracked, store' = store, Current' = Fresh(store), sent' \in {sent, NotSent},
           \A e \in Drives : Awaits(e, "commit")' =>
               Awaits(e, "commit") /\ flight'[e].arg = flight[e].arg
    PROVE  Tracked'
<1>1. SentAs(store) /\ AwaitedAs(store) BY DEF Tracked
<1>2. Current'.rec = store BY FreshOrderly
<1>3. SentAs(Current.rec)' /\ SentAs(store)' BY <1>1, <1>2 DEF SentAs
<1>4. AwaitedAs(Current.rec)' /\ AwaitedAs(store)' BY <1>1, <1>2 DEF AwaitedAs
<1>5. Agrees' BY <1>2 DEF Agrees
<1> QED BY <1>3, <1>4, <1>5 DEF Tracked

\* Nothing of it is touched.
LEMMA TrackedSame ==
    ASSUME Tracked, store' = store, Current' = Current, sent' = sent,
           \A e \in Drives : Awaits(e, "commit")' =>
               Awaits(e, "commit") /\ flight'[e].arg = flight[e].arg
    PROVE  Tracked'
<1>1. /\ SentAs(Current.rec) /\ SentAs(store) /\ AwaitedAs(Current.rec)
      /\ AwaitedAs(store) /\ Agrees
  BY DEF Tracked
<1>2. SentAs(Current.rec)' /\ SentAs(store)' BY <1>1 DEF SentAs
<1>3. AwaitedAs(Current.rec)' /\ AwaitedAs(store)' BY <1>1 DEF AwaitedAs
<1>4. Agrees' BY <1>1 DEF Agrees
<1> QED BY <1>2, <1>3, <1>4 DEF Tracked

\* There is nothing to agree with, and no COMMIT is awaited.
LEMMA TrackedNothing ==
    ASSUME store'.phase \in {"unreadable", "discarded"},
           Current'.rec.phase \in {"unreadable", "discarded"},
           \A e \in Drives : ~Awaits(e, "commit")'
    PROVE  Tracked'
<1>1. SentAs(Current.rec)' /\ SentAs(store)' BY DEF SentAs
<1>2. AwaitedAs(Current.rec)' /\ AwaitedAs(store)' BY DEF AwaitedAs
<1>3. Agrees' BY DEF Agrees
<1> QED BY <1>1, <1>2, <1>3 DEF Tracked

\* COMMIT is handed to the database for the record's caller and sequence.
LEMMA TrackedHands ==
    ASSUME Tracked, NEW d \in Drives, Hands(d)
    PROVE  Tracked'
<1>1. /\ SentAs(Current.rec) /\ SentAs(store) /\ AwaitedAs(Current.rec)
      /\ AwaitedAs(store) /\ Agrees
  BY DEF Tracked
<1>2. /\ store' = store /\ Current' = Current /\ Awaits(d, "commit")
      /\ sent' = [seq |-> flight[d].arg, auth |-> store.auth]
      /\ \A e \in Drives \ {d} : flight'[e] = flight[e]
      /\ flight'[d].stage = flight[d].stage /\ flight'[d].ev = flight[d].ev
      /\ flight'[d].arg = flight[d].arg
  BY DEF Hands
<1>3. \A e \in Drives : Awaits(e, "commit")' =>
         Awaits(e, "commit") /\ flight'[e].arg = flight[e].arg
  BY <1>2 DEF Awaits
<1>4. /\ Current.rec.phase \in Uncertain /\ Current.rec.seq = flight[d].arg
      /\ store.phase \in Uncertain /\ store.seq = flight[d].arg
  BY <1>1, <1>2 DEF AwaitedAs
<1>5. Current.rec.auth = store.auth BY <1>1, <1>4 DEF Agrees, Uncertain
<1>6. sent'.seq = flight[d].arg /\ sent'.auth = store.auth BY <1>2
<1>7. SentAs(Current.rec)' /\ SentAs(store)'
  BY <1>2, <1>4, <1>5, <1>6 DEF SentAs, Uncertain
<1>8. AwaitedAs(Current.rec)' /\ AwaitedAs(store)' BY <1>1, <1>2, <1>3 DEF AwaitedAs
<1>9. Agrees' BY <1>1, <1>2 DEF Agrees
<1> QED BY <1>7, <1>8, <1>9 DEF Tracked

\* Every step of the owner keeps the COMMIT's caller and sequence.
LEMMA TrackedStep ==
    ASSUME TypeOK, CommitProtocol, CommitProtocol', RecordInv, CallerInv, Tracked,
           [Next]_vars
    PROVE  Tracked'
<1>0. FedTypes /\ HonestNow /\ Asked BY TypeParts DEF CallerInv
<1>1. CASE Pauses
  <2>1. \A e \in Drives : Awaits(e, "commit")' =>
           Awaits(e, "commit") /\ flight'[e].arg = flight[e].arg
    BY <1>1 DEF Pauses, Pausing, Awaits
  <2> QED BY <1>1, <2>1, TrackedFresh, TrackedSame DEF Pauses
<1>2. CASE Forgets
  <2>1. /\ store' = Unreadable /\ Current' = Fresh(Unreadable)
        /\ \A e \in Drives : flight'[e].stage = "idle"
    BY <1>2 DEF Forgets
  <2>2. Current'.rec = Unreadable /\ Unreadable.phase = "unreadable"
    BY <2>1, FreshOrderly, TombstoneHonest
  <2>3. \A e \in Drives : ~Awaits(e, "commit")' BY <2>1 DEF Awaits
  <2> QED BY <2>1, <2>2, <2>3, TrackedNothing
<1>3. ASSUME NEW cmd \in ClientInputs, Asks(cmd) PROVE Tracked'
  <2>1. \A e \in Drives : Awaits(e, "commit")' =>
           Awaits(e, "commit") /\ flight'[e].arg = flight[e].arg
    BY <1>3 DEF Asks, Awaits
  <2> QED BY <1>3, <2>1, TrackedSame DEF Asks
<1>4. ASSUME NEW d \in Drives, Hands(d) PROVE Tracked' BY <1>4, TrackedHands
<1>5. ASSUME NEW d \in Drives, Progress(d) PROVE Tracked'
  <2>1. PICK ev \in Events, conn \in BOOLEAN, h \in HostFacts, o \in Outputs :
           /\ Speaks(d, ev, o)
           /\ \/ Carries(d, ev, conn, h, o) \/ Drops(d, ev, o) \/ Discards(d, ev, o)
    BY <1>0, <1>5, SpeakSteps
  <2>2. /\ sent' \in {sent, NotSent} /\ \A e \in Drives \ {d} : flight'[e] = flight[e]
    BY <2>1 DEF Speaks
  <2>3. CASE Carries(d, ev, conn, h, o) BY <1>0, <2>1, <2>3, TrackedOn
  <2>4. CASE Drops(d, ev, o)
    <3>1. Current' = Fresh(store) /\ store' = store /\ flight'[d].stage = "idle"
      BY <2>4 DEF Drops
    <3>2. \A e \in Drives : Awaits(e, "commit")' =>
             Awaits(e, "commit") /\ flight'[e].arg = flight[e].arg
      BY <2>2, <3>1 DEF Awaits
    <3> QED BY <2>2, <3>1, <3>2, TrackedFresh
  <2>5. CASE Discards(d, ev, o)
    <3>1. /\ store = Unreadable /\ store' \in {store, Tombstone} /\ ~Awaits(d, "commit")'
          /\ Current' = o.m /\ o.m.rec = Tombstone
      BY <2>5 DEF Discards
    <3>2. store.phase = "unreadable" /\ Tombstone.phase = "discarded"
      BY <3>1, TombstoneHonest
    <3>3. \A e \in Drives : ~Awaits(e, "commit") BY <3>2 DEF RecordInv, SentFor
    <3>4. \A e \in Drives : ~Awaits(e, "commit")' BY <2>2, <3>1, <3>3 DEF Awaits
    <3>5. Current'.rec.phase = "discarded" /\ store'.phase \in {"unreadable", "discarded"}
      BY <3>1, <3>2
    <3> QED BY <3>4, <3>5, TrackedNothing
  <2> QED BY <2>1, <2>3, <2>4, <2>5
<1> QED BY <1>1, <1>2, <1>3, <1>4, <1>5, AnswerSteps

\* So do callers keep theirs.
LEMMA CallerStep ==
    ASSUME TypeOK, CommitProtocol, RecordInv, CallerInv, [Next]_vars
    PROVE  CallerInv'
<1>1. FedTypes /\ HonestNow /\ Asked BY TypeParts DEF CallerInv
<1>2. ASSUME NEW d \in Drives, Progress(d) PROVE CallerInv'
  <2>1. PICK ev \in Events, conn \in BOOLEAN, h \in HostFacts, o \in Outputs :
           /\ Speaks(d, ev, o)
           /\ \/ Carries(d, ev, conn, h, o) \/ Drops(d, ev, o) \/ Discards(d, ev, o)
    BY <1>1, <1>2, SpeakSteps
  <2> QED BY <2>1, CallerSpeaks
<1> QED BY <1>2, AnswerSteps, CallerPauses, CallerForgets, CallerAsks, CallerHands

(***************************************************************************)
(* Rejected commits stay rejected                                          *)
(***************************************************************************)
\* A transaction that is over stays so.
LEMMA OverSpeaks ==
    ASSUME RecordInv, NEW d \in Drives, NEW ev \in Events, NEW conn,
           NEW h \in HostFacts, NEW o \in Outputs, Speaks(d, ev, o), Over,
           Carries(d, ev, conn, h, o) \/ Drops(d, ev, o) \/ Discards(d, ev, o)
    PROVE  Over'
<1>1. /\ sent = NotSent /\ store.phase # "absent" /\ ~Runs(Current)
      /\ \A e \in Drives : ~Awaits(e, "commit")
  BY DEF Over
<1>2. /\ sent' \in {sent, NotSent} /\ (store'.phase = "absent" => store' = store)
      /\ \A e \in Drives \ {d} : flight'[e] = flight[e]
  BY DEF Speaks
<1>3. sent' = NotSent /\ store'.phase # "absent" BY <1>1, <1>2
<1>4. \A e \in Drives \ {d} : ~Awaits(e, "commit")' BY <1>1, <1>2 DEF Awaits
<1>5. ~Awaits(d, "commit")' /\ ~Runs(Current')
  <2>1. CASE Carries(d, ev, conn, h, o)
    <3>1. /\ GoesOn(d, ev, conn, h, o) /\ Current' = o.m /\ Orderly(Current, runtime)
          /\ UseSteps(Current, h, ev, o) /\ Heard(d, ev) /\ Current \in Machines
          /\ o.await.type = "none" => flight'[d].stage = "idle"
          /\ o.await.type # "none" => flight'[d].ev.type = o.await.type
      BY <2>1 DEF Carries, GoesOn
    <3>2. ~AnsweredAs(Current, ev, "BeginOpen", "ok")
      BY <1>1, <3>1, AnsweredFacts DEF AnsweredAs
    <3>3. ~Runs(o.m) BY <1>1, <3>1, <3>2, RunsBefore
    <3>4. Current.work.task # "CommitPersist"
      BY <1>1, <3>1 DEF Orderly, Fits, At, Runs, HasDeadline
    <3>5. o.await.type # "commit" BY <3>1, <3>4 DEF UseSteps, AnsweredAs
    <3> QED BY <3>1, <3>3, <3>5 DEF Awaits
  <2>2. CASE Drops(d, ev, o)
    <3>1. Current' = Fresh(store) /\ flight'[d].stage = "idle" BY <2>2 DEF Drops
    <3>2. Fresh(store).conn = "none" BY FreshOrderly
    <3> QED BY <3>1, <3>2 DEF Awaits, Runs
  <2>3. CASE Discards(d, ev, o) BY <2>3 DEF Discards, Runs
  <2> QED BY <2>1, <2>2, <2>3
<1> QED BY <1>3, <1>4, <1>5 DEF Over, Runs

\* What is neither sent, awaited nor in progress does not become so, unless it
\* is the command of this step.
LEMMA MuteSpeaks ==
    ASSUME RecordInv, Tracked, Tracked', NEW d \in Drives, NEW ev \in Events, NEW conn,
           NEW h \in HostFacts, NEW o \in Outputs, Speaks(d, ev, o),
           Carries(d, ev, conn, h, o) \/ Drops(d, ev, o) \/ Discards(d, ev, o),
           NEW t, Mute(t),
           ev.type = "forwarded" /\ ev.cmd.kind = "commit" =>
               ~Is(ev.cmd, t) \/ Stays(Current, o)
    PROVE  Mute(t)'
<1>1. /\ sent # NotSent => ~Is(sent, t)
      /\ \A e \in Drives : Awaits(e, "commit") =>
            ~(flight[e].arg = t.seq /\ store.auth = t.auth)
      /\ Current.work.task \in CommitTasks => ~Is(Current.work.cmd, t)
      /\ HasDeferred(Current) => ~Is(Current.deferred.cmd, t)
  BY DEF Mute
<1>2. sent' \in {sent, NotSent} /\ \A e \in Drives \ {d} : flight'[e] = flight[e]
  BY DEF Speaks
<1>3. sent' # NotSent => ~Is(sent', t) BY <1>1, <1>2 DEF Is
<1>4. CASE Carries(d, ev, conn, h, o)
  <2> DEFINE c == Current
  <2>1. /\ c \in Machines /\ Current' = o.m /\ Orderly(c, runtime)
        /\ UseSteps(c, h, ev, o) /\ FrankRec(c, o) /\ FrankWork(c, h, ev, o)
        /\ o.await.type = "none" => flight'[d].stage = "idle"
        /\ o.await.type # "none" =>
              flight'[d].ev.type = o.await.type /\ flight'[d].arg = o.await.arg
    BY <1>4 DEF Carries, GoesOn
  <2>2. /\ AwaitedAs(c.rec) /\ AwaitedAs(store) /\ Agrees /\ AwaitedAs(store)' /\ Agrees'
    BY DEF Tracked
  <2>3. \A e \in Drives : Awaits(e, "commit")' => store'.auth = o.m.rec.auth
    <3>1. \A e \in Drives : Awaits(e, "commit")' => store'.phase \in Uncertain
      BY <2>2 DEF AwaitedAs
    <3> QED BY <2>1, <2>2, <3>1 DEF Agrees, Uncertain
  <2>4. \A e \in Drives : Awaits(e, "commit") =>
           store.auth = c.rec.auth /\ c.rec.phase # "absent"
    <3>1. \A e \in Drives : Awaits(e, "commit") =>
             store.phase \in Uncertain /\ c.rec.phase \in Uncertain
      BY <2>2 DEF AwaitedAs
    <3> QED BY <2>2, <3>1 DEF Agrees, Uncertain
  <2>5. /\ c.work.task \in CommitTasks => ~Is(c.work.cmd, t)
        /\ HasDeferred(c) => ~Is(c.deferred.cmd, t)
    BY <1>1
  <2> HIDE DEF c
  <2>6. ASSUME NEW e \in Drives, Awaits(e, "commit")'
        PROVE  ~(flight'[e].arg = t.seq /\ store'.auth = t.auth)
    <3>1. CASE e # d
      <4>1. flight'[e] = flight[e] /\ Awaits(e, "commit") BY <1>2, <2>6, <3>1 DEF Awaits
      <4>2. o.m.rec.auth = c.rec.auth BY <2>1, <2>4, <4>1 DEF FrankRec
      <4>3. store'.auth = store.auth BY <2>3, <2>4, <2>6, <4>1, <4>2
      <4> QED BY <1>1, <4>1, <4>3
    <3>2. CASE e = d
      <4>1. o.await.type = "commit" /\ flight'[d].arg = o.await.arg
        BY <2>1, <2>6, <3>2 DEF Awaits
      <4>2. c.work.task = "CommitPersist" /\ o.m.rec = c.rec /\ o.await.arg = c.rec.seq
        BY <2>1, <4>1 DEF UseSteps, AnsweredAs
      <4>3. c.work.cmd.seq = c.rec.seq /\ c.work.cmd.auth = c.rec.auth
        BY <2>1, <4>2 DEF Orderly, Fits, Owns
      <4>4. ~Is(c.work.cmd, t) BY <2>5, <4>2 DEF CommitTasks
      <4>5. store'.auth = c.rec.auth BY <2>3, <2>6, <4>2
      <4> QED BY <3>2, <4>1, <4>2, <4>3, <4>4, <4>5 DEF Is
    <3> QED BY <3>1, <3>2
  <2>7. \A cmd : From(c, ev, cmd) => ~Is(cmd, t) \/ Stays(c, o)
    BY <2>5 DEF From, c
  <2>8. o.m.work.task \in CommitTasks => ~Is(o.m.work.cmd, t)
    <3> SUFFICES ASSUME o.m.work.task \in CommitTasks PROVE ~Is(o.m.work.cmd, t) OBVIOUS
    <3>1. From(c, ev, o.m.work.cmd) BY <2>1 DEF FrankWork
    <3>2. HasWork(o.m) BY DEF HasWork, CommitTasks
    <3> QED BY <2>5, <2>7, <3>1, <3>2 DEF Stays
  <2>9. HasDeferred(o.m) => ~Is(o.m.deferred.cmd, t)
    <3> SUFFICES ASSUME HasDeferred(o.m) PROVE ~Is(o.m.deferred.cmd, t) OBVIOUS
    <3>1. From(c, ev, o.m.deferred.cmd) BY <2>1 DEF FrankWork
    <3>2. Stays(c, o) => o.m.deferred = c.deferred /\ HasDeferred(c)
      BY DEF Stays, HasDeferred
    <3> QED BY <2>5, <2>7, <3>1, <3>2
  <2> QED BY <1>3, <2>1, <2>6, <2>8, <2>9 DEF Mute, HasDeferred, Is
<1>5. CASE Drops(d, ev, o)
  <2>1. Current' = Fresh(store) /\ store' = store /\ flight'[d].stage = "idle"
    BY <1>5 DEF Drops
  <2>2. Fresh(store).work.task = "none" /\ Fresh(store).deferred.task = "none"
    BY FreshOrderly DEF NoWork
  <2>3. \A e \in Drives : Awaits(e, "commit")' => flight'[e] = flight[e] /\ Awaits(e, "commit")
    BY <1>2, <2>1 DEF Awaits
  <2> QED BY <1>1, <1>3, <2>1, <2>2, <2>3 DEF Mute, HasDeferred, CommitTasks, Is
<1>6. CASE Discards(d, ev, o)
  <2>1. /\ store = Unreadable /\ ~Awaits(d, "commit")' /\ Current' = o.m
        /\ o.m.work.task \notin CommitTasks /\ ~HasDeferred(o.m)
    BY <1>6 DEF Discards
  <2>2. \A e \in Drives : ~Awaits(e, "commit")
    BY <2>1, TombstoneHonest DEF RecordInv, SentFor
  <2>3. \A e \in Drives : ~Awaits(e, "commit")' BY <1>2, <2>1, <2>2 DEF Awaits
  <2> QED BY <1>3, <2>1, <2>3 DEF Mute, HasDeferred, Is
<1> QED BY <1>4, <1>5, <1>6

\* A commit in progress belongs to the record's caller and next sequence, on the
\* client's lane, and the record is not final.
LEMMA CommitOwned ==
    ASSUME NEW x, NEW snap, Orderly(x, snap), Consistent(x)
    PROVE  /\ x.work.task \in CommitTasks =>
                 /\ x.work.lane = "client" /\ x.work.cmd.seq = x.rec.seq
                 /\ x.work.cmd.auth = x.rec.auth /\ x.rec.phase \in HasDeadline
           /\ HasDeferred(x) =>
                 /\ x.deferred.cmd.seq = x.rec.seq /\ x.deferred.cmd.auth = x.rec.auth
                 /\ x.rec.phase = "validating"
<1>1. Fits(x, x.work, snap) /\ Fits(x, x.deferred, snap) BY DEF Orderly
<1>2. x.work.task \in CommitTasks =>
         /\ x.work.lane = "client" /\ x.work.cmd.seq = x.rec.seq
         /\ x.work.cmd.auth = x.rec.auth /\ x.rec.phase \in HasDeadline
  BY <1>1 DEF Fits, At, Owns, CommitTasks, HasDeadline
<1>3. HasDeferred(x) => x.deferred.task = "Verdict" BY DEF Consistent
<1>4. HasDeferred(x) =>
         /\ x.deferred.cmd.seq = x.rec.seq /\ x.deferred.cmd.auth = x.rec.auth
         /\ x.rec.phase = "validating"
  BY <1>1, <1>3 DEF Fits, At, Owns
<1> QED BY <1>2, <1>4

\* A commit that is refused as it comes is neither sent, awaited nor in progress.
LEMMA RefusedMute ==
    ASSUME FedTypes, WorldTypes, CommitProtocol, RecordInv, CountInv, Tracked,
           Current \in Machines, Consistent(Current), NEW cmd \in Commands,
           Refuses(Current, cmd)
    PROVE  Mute(cmd)
<1> DEFINE c == Current
<1>1. /\ SentAs(c.rec) /\ AwaitedAs(c.rec) /\ AwaitedAs(store) /\ Agrees
  BY DEF Tracked
<1>2. c.rec \in Records /\ c.rec.seq \in Nat /\ cmd.seq \in Nat /\ sent.seq \in Nat
  BY MachineFields DEF Records, Commands, WorldTypes
<1>3. c.rec.phase \notin {"discarded", "unreadable"}
  BY <1>2 DEF Refuses, Records, Phases, HasDeadline, Terminal
<1>4. Orderly(c, runtime) /\ Consistent(c) BY DEF RecordInv, OrderlyNow
<1>5. /\ c.work.task \in CommitTasks =>
            /\ c.work.lane = "client" /\ c.work.cmd.seq = c.rec.seq
            /\ c.work.cmd.auth = c.rec.auth /\ c.rec.phase \in HasDeadline
      /\ HasDeferred(c) =>
            /\ c.deferred.cmd.seq = c.rec.seq /\ c.deferred.cmd.auth = c.rec.auth
            /\ c.rec.phase = "validating"
  BY <1>4, CommitOwned
<1>6. CommitPossible => c.rec.phase \in Sealing BY SealedNow
<1>7. \A e \in Drives : Awaits(e, "commit") =>
         /\ c.rec.phase \in Uncertain /\ c.rec.seq = flight[e].arg
         /\ store.auth = c.rec.auth
  <2>1. \A e \in Drives : Awaits(e, "commit") =>
           /\ c.rec.phase \in Uncertain /\ c.rec.seq = flight[e].arg
           /\ store.phase \in Uncertain
    BY <1>1 DEF AwaitedAs
  <2> QED BY <1>1, <2>1 DEF Agrees, Uncertain
<1>8. sent # NotSent => /\ c.rec.auth = sent.auth
                        /\ c.rec.phase \in Uncertain => c.rec.seq = sent.seq
                        /\ c.rec.phase = "committed" => c.rec.seq = sent.seq + 1
  BY <1>1, <1>3 DEF SentAs
<1>9. sent # NotSent => sent.seq # 0
  <2>1. sent # NotSent => Len(applied) = sent.seq - 1 BY DEF CountInv, SentCounts
  <2>2. Len(applied) \in Nat BY DEF WorldTypes
  <2> QED BY <1>2, <2>1, <2>2
<1>10. /\ c.rec.phase # "discarded"
       /\ \/ c.rec.phase = "absent" \/ cmd.auth # c.rec.auth
          \/ /\ c.rec.phase \in {"committing", "commit_unknown"}
             /\ cmd.seq # c.rec.seq /\ c.work.lane # "client"
          \/ c.rec.phase = "committed" /\ (cmd.seq = 0 \/ cmd.seq + 1 # c.rec.seq)
          \/ /\ c.rec.phase \in {"active", "validating"} \cup Endings
             /\ c.work.lane # "client" /\ ~HasDeferred(c)
  BY DEF Refuses
<1> SUFFICES /\ sent # NotSent => ~Is(sent, cmd)
             /\ \A e \in Drives : Awaits(e, "commit") =>
                   ~(flight[e].arg = cmd.seq /\ store.auth = cmd.auth)
             /\ c.work.task \in CommitTasks => ~Is(c.work.cmd, cmd)
             /\ HasDeferred(c) => ~Is(c.deferred.cmd, cmd)
  BY DEF Mute
<1> HIDE DEF c
<1>11. CASE c.rec.phase \in {"absent", "active", "validating"} \cup Endings /\
            (c.rec.phase = "absent" \/ (c.work.lane # "client" /\ ~HasDeferred(c)))
  <2>1. ~CommitPossible BY <1>6, <1>11 DEF Sealing, Endings
  <2> QED BY <1>5, <1>11, <2>1 DEF CommitPossible, HasDeadline
<1>12. CASE cmd.auth # c.rec.auth BY <1>5, <1>7, <1>8, <1>12 DEF Is
<1>13. CASE c.rec.phase \in Uncertain /\ cmd.seq # c.rec.seq
  BY <1>5, <1>7, <1>8, <1>13 DEF Is
<1>14. CASE c.rec.phase = "committed" /\ (cmd.seq = 0 \/ cmd.seq + 1 # c.rec.seq)
  <2>1. sent # NotSent => sent.seq # cmd.seq BY <1>2, <1>8, <1>9, <1>14
  <2> QED BY <1>5, <1>7, <1>14, <2>1 DEF Is, Uncertain, HasDeadline
<1> QED BY <1>10, <1>11, <1>12, <1>13, <1>14 DEF Uncertain

\* A rejection that a step gives now: its transaction is over, or the commit is
\* neither sent, awaited, in progress nor about to be stepped.
LEMMA Rejects ==
    ASSUME TypeOK, CommitProtocol, RecordInv, UseInv, CountInv, CallerInv, Tracked,
           Tracked', NEW d \in Drives, NEW ev \in Events, NEW conn,
           NEW h \in HostFacts, NEW o \in Outputs, Speaks(d, ev, o),
           Carries(d, ev, conn, h, o) \/ Drops(d, ev, o) \/ Discards(d, ev, o),
           NEW t, Is(waiter["client"], t), waiter["client"].kind = "commit",
           o.client \in Definite
    PROVE  Over' \/ Silent(t)'
<1>0. FedTypes /\ WorldTypes BY TypeParts
<1>1. HonestNow /\ Asked /\ HeldByClient /\ TookStored BY DEF CallerInv
<1>2. /\ Heard(d, ev) /\ flight'[d].stage # "ready" /\ sent' \in {sent, NotSent}
      /\ \A e \in Drives \ {d} : flight'[e] = flight[e]
      /\ store'.phase = "absent" => store' = store
  BY DEF Speaks
<1>3. "client" \in Drives /\ NoCmd.kind # "commit" BY DEF Drives, NoCmd
<1>4. d = "client" \/ ~Pending("client") => Unasked(t)'
  BY <1>2, <1>3 DEF Unasked, Pending
<1>5. ~(ev.type = "forwarded" /\ ev.cmd.kind \notin {"commit", "query"})
  <2> SUFFICES ASSUME ev.type = "forwarded", ev.cmd.kind \notin {"commit", "query"}
               PROVE  FALSE
    OBVIOUS
  <2>1. d = "client" /\ waiter["client"] \in {NoCmd, ev.cmd}
    BY <1>1, <1>2, ForwardedBy
  <2> QED BY <1>3, <2>1
<1>6. CASE Discards(d, ev, o) BY <1>5, <1>6 DEF Discards
<1>7. CASE Carries(d, ev, conn, h, o) \/ Drops(d, ev, o)
  <2> DEFINE c == Current
  <2>1. /\ c \in Machines /\ Consistent(c) /\ Orderly(c, runtime)
        /\ FrankReply(c, ev, o)
    BY <1>7 DEF Carries, Drops, GoesOn
  <2>2. Reasons(c, ev, o) BY <2>1 DEF FrankReply
  <2>3. CommitPossible => c.rec.phase \in Sealing BY <2>1, SealedNow
  <2>4. Answered(c, ev) =>
           /\ Awaits(d, AwaitedBy(c.work.task)) /\ flight[d].ev.id = c.work.id
           /\ flight[d].stage = "effect"
    BY <1>2, <2>1, AnsweredFacts
  <2>5. CASE /\ ev.type = "forwarded" /\ ev.cmd.kind = "commit"
             /\ Refuses(c, ev.cmd) /\ Stays(c, o)
    <3>1. d = "client" /\ waiter["client"] = ev.cmd
      <4>1. d = "client" BY <1>1, <1>2, <2>5, ForwardedBy
      <4>2. waiter["client"] \in {NoCmd, ev.cmd} BY <1>1, <1>2, <2>5, <4>1, ForwardedBy
      <4> QED BY <1>3, <4>1, <4>2
    <3>2. ev.cmd \in Commands BY DEF Events
    <3>3. Mute(ev.cmd) BY <1>0, <2>1, <2>5, <3>2, RefusedMute
    <3>4. Mute(t) BY <3>1, <3>3 DEF Mute, Is
    <3>5. Mute(t)' BY <1>7, <2>5, <3>4, MuteSpeaks
    <3> QED BY <1>4, <3>1, <3>5 DEF Silent
  <2>6. CASE Answered(c, ev) /\ c.work.task = "BeginBinding"
    <3>1. Held(c.rec, c.work) /\ ~InDoubt(c.rec, c.work) BY <2>6 DEF Held, InDoubt
    <3> QED BY <1>1, <3>1 DEF HeldByClient
  <2>7. CASE /\ Answered(c, ev) /\ c.work.task = "Reply" /\ c.rec.phase \in Endings
             /\ ev.result = "ok"
    <3>1. Awaits(d, "persist") /\ ev.type = "persist"
      BY <2>4, <2>7 DEF AwaitedBy, Answered
    <3>2. flight[d].took BY <1>2, <2>7, <3>1 DEF Heard, EffectTypes
    <3>3. store.phase # "absent" BY <1>1, <3>1, <3>2 DEF TookStored
    <3>4. ~CommitPossible BY <2>3, <2>7 DEF Sealing, Endings
    <3>5. ~Runs(c) BY <2>7 DEF Runs, HasDeadline, Endings
    <3>6. Over BY <3>3, <3>4, <3>5 DEF Over, CommitPossible
    <3> QED BY <1>7, <3>6, OverSpeaks
  <2>8. CASE Answered(c, ev) /\ InDoubt(c.rec, c.work)
    <3>1. Held(c.rec, c.work) BY <2>8 DEF Held
    <3>2. /\ \/ /\ Awaits("client", AwaitedBy(c.work.task))
                /\ flight["client"].ev.id = c.work.id
             \/ flight["client"].stage = "ready" /\ flight["client"].ev.type = "abandon"
          /\ waiter["client"].seq # c.rec.seq
      BY <1>1, <3>1 DEF HeldByClient
    <3>3. d = "client" \/ ~Pending("client")
      BY <1>3, <2>4, <2>8, <3>2 DEF UseInv, UniqueIds, Awaits, Pending
    <3>4. /\ c.work.task = "Reply" /\ c.rec.phase = "commit_unknown"
          /\ ev.type = "persist" /\ ~HasDeferred(c)
      BY <2>1, <2>8 DEF InDoubt, Answered, AwaitedBy, Consistent, HasWork
    <3>5. /\ sent # NotSent => c.rec.seq = sent.seq
          /\ \A e \in Drives : Awaits(e, "commit") => c.rec.seq = flight[e].arg
      BY <3>4 DEF Tracked, SentAs, AwaitedAs, Uncertain
    <3>6. Mute(t) BY <3>2, <3>4, <3>5 DEF Mute, Is, CommitTasks
    <3>7. Mute(t)' BY <1>7, <3>4, <3>6, MuteSpeaks
    <3> QED BY <1>4, <3>3, <3>7 DEF Silent
  <2>9. CASE c.rec.phase = "validating" /\ o.reset = FALSE /\ o.m.rec.phase = "expired"
    <3>1. ~CommitPossible BY <2>3, <2>9 DEF Sealing
    <3>2. store.phase # "absent" BY <2>9 DEF RecordInv, NotYetStored, Endings
    <3>3. sent' = NotSent /\ store'.phase # "absent"
      BY <1>2, <3>1, <3>2 DEF CommitPossible
    <3>4. \A e \in Drives \ {d} : ~Awaits(e, "commit")'
      BY <1>2, <3>1 DEF CommitPossible, Awaits
    <3>5. CASE Carries(d, ev, conn, h, o)
      <4>1. /\ Current' = o.m /\ UseSteps(c, h, ev, o)
            /\ o.await.type = "none" => flight'[d].stage = "idle"
            /\ o.await.type # "none" => flight'[d].ev.type = o.await.type
        BY <3>5 DEF Carries, GoesOn
      <4>2. o.await.type # "commit" BY <2>9, <4>1 DEF UseSteps
      <4>3. ~Awaits(d, "commit")' BY <4>1, <4>2 DEF Awaits
      <4>4. ~Runs(Current') BY <2>9, <4>1 DEF Runs, HasDeadline
      <4> QED BY <3>3, <3>4, <4>3, <4>4 DEF Over, Runs
    <3>6. CASE Drops(d, ev, o)
      <4>1. Current' = Fresh(store) /\ flight'[d].stage = "idle" BY <3>6 DEF Drops
      <4>2. Fresh(store).conn = "none" BY FreshOrderly
      <4>3. ~Awaits(d, "commit")' /\ ~Runs(Current') BY <4>1, <4>2 DEF Awaits, Runs
      <4> QED BY <3>3, <3>4, <4>3 DEF Over, Runs
    <3> QED BY <1>7, <3>5, <3>6
  <2> HIDE DEF c
  <2> QED BY <1>5, <2>2, <2>5, <2>6, <2>7, <2>8, <2>9 DEF Reasons
<1> QED BY <1>6, <1>7

\* What a step tells is true, and what was told stays true.
LEMMA ToldSpeaks ==
    ASSUME TypeOK, CommitProtocol, RecordInv, UseInv, CountInv, CallerInv, Tracked,
           Tracked', ToldInv, db = "committed" => db' = "committed",
           NEW d \in Drives, NEW ev \in Events, NEW conn, NEW h \in HostFacts,
           NEW o \in Outputs, Speaks(d, ev, o),
           Carries(d, ev, conn, h, o) \/ Drops(d, ev, o) \/ Discards(d, ev, o)
    PROVE  ToldInv'
<1>1. HonestNow /\ Asked BY DEF CallerInv
<1>2. /\ Heard(d, ev) /\ flight'[d].stage # "ready"
      /\ \A e \in Drives \ {d} : flight'[e] = flight[e]
      /\ told' = told \cup Verdicts(waiter["client"], o.client)
  BY DEF Speaks, Tells
<1>3. "client" \in Drives BY DEF Drives
<1>4. ASSUME NEW t \in told
      PROVE  /\ t.answer = "committed" => db' = "committed"
             /\ t.answer = "rejected" => Over' \/ Silent(t)'
  <2>1. /\ t.answer = "committed" => db = "committed"
        /\ t.answer = "rejected" => Over \/ Silent(t)
    BY DEF ToldInv
  <2>2. Over => Over' BY OverSpeaks
  <2>3. ASSUME Silent(t) PROVE Silent(t)'
    <3>1. Mute(t) /\ Unasked(t) BY <2>3 DEF Silent
    <3>2. Unasked(t)' BY <1>2, <1>3, <3>1 DEF Unasked, Pending
    <3>3. ev.type = "forwarded" /\ ev.cmd.kind = "commit" => ~Is(ev.cmd, t)
      <4> SUFFICES ASSUME ev.type = "forwarded", ev.cmd.kind = "commit"
                   PROVE  ~Is(ev.cmd, t)
        OBVIOUS
      <4>1. d = "client" /\ Pending(d) /\ ev = flight[d].ev
        BY <1>1, <1>2, ForwardedBy
      <4> QED BY <3>1, <4>1 DEF Unasked
    <3>4. Mute(t)' BY <3>1, <3>3, MuteSpeaks
    <3> QED BY <3>2, <3>4 DEF Silent
  <2> QED BY <2>1, <2>2, <2>3
<1>5. ASSUME NEW t \in Verdicts(waiter["client"], o.client)
      PROVE  /\ t.answer = "committed" => db' = "committed"
             /\ t.answer = "rejected" => Over' \/ Silent(t)'
  <2>1. /\ waiter["client"].kind = "commit" /\ Is(waiter["client"], t)
        /\ o.client \in Definite \cup {"committed"}
        /\ t.answer = IF o.client = "committed" THEN "committed" ELSE "rejected"
    BY DEF Verdicts, Is
  <2>2. CASE o.client = "committed"
    <3>1. ~Discards(d, ev, o) BY <2>2 DEF Discards
    <3>2. Current.rec.phase = "committed"
      BY <2>2, <3>1 DEF Carries, Drops, FrankReply
    <3>3. db = "committed" BY <3>2 DEF RecordInv, CommittedTruly
    <3> QED BY <2>1, <2>2, <3>3
  <2>3. CASE o.client # "committed"
    <3>1. o.client \in Definite BY <2>1, <2>3
    <3>2. Over' \/ Silent(t)' BY <2>1, <3>1, Rejects
    <3> QED BY <2>1, <2>3, <3>2
  <2> QED BY <2>2, <2>3
<1> QED BY <1>2, <1>4, <1>5 DEF ToldInv

\* A rejection outlives the steps that tell nothing.
LEMMA RejectedKept ==
    ASSUME CommitProtocol, NEW t, Over \/ Silent(t),
           \/ Pauses \/ Forgets
           \/ \E cmd : Asks(cmd) /\ (cmd.kind = "commit" => ~Is(cmd, t))
           \/ \E d \in Drives : Hands(d)
    PROVE  Over' \/ Silent(t)'
<1>1. "client" \in Drives BY DEF Drives
<1>2. \A rec : /\ Fresh(rec).conn = "none" /\ Fresh(rec).work.task = "none"
               /\ Fresh(rec).deferred.task = "none"
  BY FreshOrderly DEF NoWork
<1>3. "none" \notin CommitTasks BY DEF CommitTasks
<1>4. CASE Pauses
  <2>1. /\ store' = store /\ sent' = sent /\ \A e \in Drives : Pausing(e)
        /\ Current' = Fresh(store) \/ Current' = Current
    BY <1>4 DEF Pauses
  <2>2. \A e \in Drives : Awaits(e, "commit")' => Awaits(e, "commit") /\ flight'[e] = flight[e]
    BY <2>1 DEF Pausing, Awaits
  <2>3. Over => Over' BY <1>2, <2>1, <2>2 DEF Over, Runs
  <2>4. Unasked(t) => Unasked(t)' BY <1>1, <2>1 DEF Unasked, Pausing, Pending
  <2>5. Mute(t) => Mute(t)'
    BY <1>2, <1>3, <2>1, <2>2 DEF Mute, HasDeferred, Is
  <2> QED BY <2>3, <2>4, <2>5 DEF Silent
<1>5. CASE Forgets
  <2>1. /\ sent' = sent /\ Current' = Fresh(Unreadable) /\ store' = Unreadable
        /\ \A e \in Drives : flight'[e].stage = "idle"
    BY <1>5 DEF Forgets
  <2>2. \A e \in Drives : ~Awaits(e, "commit")' BY <2>1 DEF Awaits
  <2>3. Over => Over' BY <1>2, <2>1, <2>2, TombstoneHonest DEF Over, Runs
  <2>4. Unasked(t)' BY <1>1, <2>1 DEF Unasked, Pending
  <2>5. Mute(t) => Mute(t)' BY <1>2, <1>3, <2>1, <2>2 DEF Mute, HasDeferred, Is
  <2> QED BY <2>3, <2>4, <2>5 DEF Silent
<1>6. ASSUME NEW cmd, Asks(cmd), cmd.kind = "commit" => ~Is(cmd, t)
      PROVE  Over' \/ Silent(t)'
  <2>1. /\ store' = store /\ sent' = sent /\ Current' = Current
        /\ \A e \in Drives \ {"client"} : flight'[e] = flight[e]
        /\ flight'["client"].stage = "ready" /\ flight'["client"].ev.cmd = cmd
    BY <1>6 DEF Asks
  <2>2. \A e \in Drives : Awaits(e, "commit")' => Awaits(e, "commit") /\ flight'[e] = flight[e]
    BY <2>1 DEF Awaits
  <2>3. Over => Over' BY <2>1, <2>2 DEF Over, Runs
  <2>4. Unasked(t)' BY <1>6, <2>1 DEF Unasked
  <2>5. Mute(t) => Mute(t)' BY <2>1, <2>2 DEF Mute, HasDeferred, Is
  <2> QED BY <2>3, <2>4, <2>5 DEF Silent
<1>7. ASSUME NEW d \in Drives, Hands(d) PROVE Over' \/ Silent(t)'
  <2>1. /\ store' = store /\ Current' = Current /\ Awaits(d, "commit")
        /\ sent' = [seq |-> flight[d].arg, auth |-> store.auth]
        /\ \A e \in Drives \ {d} : flight'[e] = flight[e]
        /\ flight'[d].stage = flight[d].stage /\ flight'[d].ev = flight[d].ev
        /\ flight'[d].arg = flight[d].arg
    BY <1>7 DEF Hands
  <2>2. Silent(t) BY <2>1 DEF Over
  <2>3. Mute(t) /\ Unasked(t) BY <2>2 DEF Silent
  <2>4. \A e \in Drives : flight'[e].stage = flight[e].stage /\ flight'[e].ev = flight[e].ev
                          /\ flight'[e].arg = flight[e].arg
    BY <2>1
  <2>5. Unasked(t)' BY <1>1, <2>3, <2>4 DEF Unasked, Pending
  <2>6. sent'.seq = flight[d].arg /\ sent'.auth = store.auth BY <2>1
  <2>7. ~Is(sent', t) BY <2>1, <2>3, <2>6 DEF Mute, Is
  <2>8. Mute(t)' BY <2>1, <2>3, <2>4, <2>7 DEF Mute, HasDeferred, Is, Awaits
  <2> QED BY <2>5, <2>8 DEF Silent
<1> QED BY <1>4, <1>5, <1>6, <1>7

\* Every step of the owner keeps its answers true.
LEMMA AnswerStep ==
    ASSUME TypeOK, CommitProtocol, CommitProtocol', RecordInv, UseInv, CountInv,
           AnswerInv, [Next]_vars
    PROVE  AnswerInv'
<1>1. CallerInv /\ Tracked /\ ToldInv /\ (db = "committed" => sent # NotSent)
  BY DEF AnswerInv, SentInv
<1>2. /\ db' = "committed" => sent' # NotSent
      /\ db = "committed" => db' = "committed"
  BY <1>1, CommittedStays
<1>3. CallerInv' /\ Tracked' BY <1>1, CallerStep, TrackedStep
<1>4. ToldInv'
  <2>1. ASSUME NEW d \in Drives, Progress(d) PROVE ToldInv'
    <3>1. FedTypes /\ HonestNow /\ Asked BY <1>1, TypeParts DEF CallerInv
    <3>2. PICK ev \in Events, conn \in BOOLEAN, h \in HostFacts, o \in Outputs :
             /\ Speaks(d, ev, o)
             /\ \/ Carries(d, ev, conn, h, o) \/ Drops(d, ev, o) \/ Discards(d, ev, o)
      BY <2>1, <3>1, SpeakSteps
    <3> QED BY <1>1, <1>2, <1>3, <3>2, ToldSpeaks
  <2>2. CASE \/ Pauses \/ Forgets \/ \E cmd \in ClientInputs : Asks(cmd)
             \/ \E d \in Drives : Hands(d)
    <3>1. told' \subseteq told BY <2>2 DEF Pauses, Forgets, Asks, Hands
    <3>2. ASSUME NEW t \in told'
          PROVE  /\ t.answer = "committed" => db' = "committed"
                 /\ t.answer = "rejected" => Over' \/ Silent(t)'
      <4>1. /\ t.answer = "committed" => db = "committed"
            /\ t.answer = "rejected" => Over \/ Silent(t)
        BY <1>1, <3>1, <3>2 DEF ToldInv
      <4>2. ASSUME t.answer = "rejected" PROVE Over' \/ Silent(t)'
        <5>1. \A cmd : Asks(cmd) => (cmd.kind = "commit" => ~Is(cmd, t))
          BY <3>2, <4>2 DEF Asks
        <5> QED BY <2>2, <4>1, <4>2, <5>1, RejectedKept
      <4> QED BY <1>2, <4>1, <4>2
    <3> QED BY <3>2 DEF ToldInv
  <2> QED BY <2>1, <2>2, AnswerSteps
<1> QED BY <1>2, <1>3, <1>4 DEF AnswerInv, SentInv

\* The answers agree with the record, with what is in flight and with the
\* COMMIT that was sent, through every event, outcome, fault and loss.
THEOREM AnswerInvariant == Spec => []AnswerInv
<1>1. Init => AnswerInv
  <2> SUFFICES ASSUME Init PROVE AnswerInv OBVIOUS
  <2>1. /\ Current = Fresh(NoRec) /\ store = NoRec /\ sent = NotSent /\ told = {}
        /\ db = "none" /\ \A e \in Drives : flight[e].stage = "idle"
    BY StartEvents DEF Init, Current
  <2>2. HonestRec(NoRec) /\ NoRec.phase = "absent" BY DEF NoRec, NoDigest, HonestRec
  <2>3. HonestNow /\ HeldByClient
    BY <2>1, <2>2, FreshHonest DEF HonestNow, HeldByClient
  <2>4. Asked /\ TookStored BY <2>1 DEF Asked, TookStored, Pending, Awaits, Drives
  <2>5. Tracked
    BY <2>1, <2>2 DEF Tracked, SentAs, AwaitedAs, Agrees, Awaits
  <2>6. ToldInv BY <2>1 DEF ToldInv
  <2> QED BY <2>1, <2>3, <2>4, <2>5, <2>6 DEF AnswerInv, CallerInv, SentInv
<1>2. /\ TypeOK /\ CommitProtocol /\ CommitProtocol' /\ RecordInv /\ UseInv /\ CountInv
      /\ AnswerInv /\ [Next]_vars
      => AnswerInv'
  BY AnswerStep
<1> QED BY <1>1, <1>2, TypeCorrect, CommitProtocolHolds, RecordInvariant, UseInvariant,
        CountInvariant, PTL DEF Spec

\* A commit is reported as committed only if the database committed it, and one
\* whose last attempt was definitely rejected never commits, however late its
\* COMMIT is applied (CommitNeverMisreported).
THEOREM CommitReportedTruly == Spec => []CommitNeverMisreported
<1>1. AnswerInv => CommitNeverMisreported
  <2> SUFFICES ASSUME AnswerInv, NEW t \in told
               PROVE  /\ t.answer = "committed" => db = "committed"
                      /\ t.answer = "rejected" /\ sent.seq = t.seq /\ sent.auth = t.auth =>
                            db # "committed"
    BY DEF CommitNeverMisreported
  <2>1. /\ t.answer = "committed" => db = "committed"
        /\ t.answer = "rejected" => Over \/ Silent(t)
        /\ db = "committed" => sent # NotSent
    BY DEF AnswerInv, ToldInv, SentInv
  <2>2. Over => sent = NotSent BY DEF Over
  <2>3. Silent(t) /\ sent # NotSent => ~(sent.seq = t.seq /\ sent.auth = t.auth)
    BY DEF Silent, Mute, Is
  <2> QED BY <2>1, <2>2, <2>3
<1> QED BY <1>1, AnswerInvariant, PTL
===============================================================================
