--------------------------- MODULE TransactionOwner ---------------------------
(***************************************************************************)
(* The owner of one transaction name (deploy/cloudflare/src/               *)
(* transaction-owner.ts): the executor that runs the step machine, with    *)
(* the store, the alarm, the runtime and the database it uses.             *)
(*                                                                         *)
(* Three drives run events and the effects they lead to: the client lane,  *)
(* the callback lane and the timer.  A lane runs one event at a time; the  *)
(* drives interleave at every await.  Each step is atomic (step_json is    *)
(* synchronous).  The owner may be lost between any two actions; its       *)
(* successor finds the store and the alarm, none of the memory.            *)
(***************************************************************************)
EXTENDS StepMachine, Sequences

CONSTANTS
    ClientInputs,   \* the commands clients may send
    CallbackInputs, \* the queries validators may send
    MaxFaults,      \* bound: failed writes and engine faults
    MaxCrashes      \* bound: losses of the owner

\* Only a validator queries; a commit carries its sequence and nothing else
\* (parse_command refuses other members).
ASSUME InputsAssumption ==
    /\ ClientInputs \subseteq Commands
    /\ CallbackInputs \subseteq Commands
    /\ \A c \in ClientInputs : /\ c.kind \notin {"none", "query"}
                               /\ c.kind = "commit" => c.pay = "none"
    /\ \A q \in CallbackInputs : q.kind = "query"
    /\ MaxFaults \in Nat
    /\ MaxCrashes \in Nat

VARIABLES
    m, loaded,  \* this.durable and this.volatile; this.loaded
    store,      \* the record in the owner's durable store
    flight,     \* what each drive is at: an event to step, or an effect
    waiter,     \* the caller each lane's reply goes to
    link,       \* this.connection is set
    runtime,    \* the snapshot of the deployed runtime
    due,        \* the record's deadline has passed
    alarm,      \* the owner's single alarm is set
    db,         \* the database transaction
    faults,     \* failed writes and engine faults so far
    crashes,    \* losses of the owner so far
    sent,       \* history: the COMMIT handed to the database
    applied,    \* history: the statements the database executed, in order
    changed,    \* history: one of them changed rows
    allowedBy,  \* history: the checks whose validator allowed
    vetted,     \* history: the binding was confirmed after the last allow
    told,       \* history: the definite answers commits were given
    orphaned    \* history: a drive ended, its caller answered by no step

memory == <<m, loaded, link>>
world == <<runtime, due, alarm, db>>
bounds == <<faults, crashes>>
progress == <<applied, changed, allowedBy, vetted>>
answers == <<told, orphaned>>
vars == <<memory, store, flight, waiter, world, bounds, sent, progress, answers>>

Drives == {"client", "callback", "timer"}
ServedLanes == {"client", "callback"}
Ids == 1..9
Unreadable == [NoRec EXCEPT !.phase = "unreadable"]
NotSent == [seq |-> 0, auth |-> "none"]

\* A drive: idle, about to step its event, or awaiting the effect its event
\* will answer.  took: the put, the alarm or the COMMIT took effect; had: the
\* connection existed when the effect was called; dying: `abandon` runs.
NoEvent == [type |-> "abandon", id |-> 0, result |-> "none", cmd |-> NoCmd]
Flights == [stage : {"idle", "ready", "effect"}, ev : Events, arg : Nat,
            took : BOOLEAN, had : BOOLEAN, dying : BOOLEAN]
Idling == [stage |-> "idle", ev |-> NoEvent, arg |-> 0, took |-> FALSE,
           had |-> FALSE, dying |-> FALSE]
Ready(ev, dying) == [Idling EXCEPT !.stage = "ready", !.ev = ev, !.dying = dying]
Awaiting(effect, took, had, dying) ==
    [stage |-> "effect", arg |-> effect.arg, took |-> took, had |-> had,
     dying |-> dying,
     ev |-> [NoEvent EXCEPT !.type = effect.type, !.id = effect.id]]

Init ==
    /\ m = Fresh(NoRec) /\ loaded = FALSE /\ store = NoRec
    /\ flight = [d \in Drives |-> Idling]
    /\ waiter = [l \in ServedLanes |-> NoCmd]
    /\ link = FALSE /\ runtime \in Snapshots
    /\ due = FALSE /\ alarm = FALSE /\ db = "none"
    /\ faults = 0 /\ crashes = 0
    /\ sent = NotSent /\ applied = <<>> /\ changed = FALSE
    /\ allowedBy = {} /\ vetted = FALSE /\ told = {} /\ orphaned = FALSE

(***************************************************************************)
(* Running the machine                                                     *)
(***************************************************************************)
\* load(): the state in memory, or what a successor reads from the store.
Current == IF loaded THEN m ELSE Fresh(store)

\* The next effect id: none a drive still awaits, none the state names.
UsedIds == {flight[d].ev.id : d \in Drives} \cup
           {Current.work.id, Current.callback.id, Current.revoked}
NextIds == LET free == Ids \ UsedIds IN {i \in free : \A j \in free : i <= j}

Run(h, ev) == IF ~loaded /\ store = Unreadable THEN FinishOutput(Discard(h, ev))
              ELSE RunDispatch(Current, h, ev)

FaultIf(happens) == IF happens THEN faults < MaxFaults /\ faults' = faults + 1
                    ELSE UNCHANGED faults

\* What a commit's caller learns for certain: the client library takes these
\* codes as proof that the command did not commit (packages/client).
Definite == {"unavailable", "conflict", "check_rejected", "invalid"}
Verdicts(cmd, reply) ==
    IF cmd.kind # "commit" \/ reply \notin Definite \cup {"committed"} THEN {}
    ELSE {[seq |-> cmd.seq, auth |-> cmd.auth,
           answer |-> IF reply = "committed" THEN "committed" ELSE "rejected"]}

LaneReply(o, lane) == IF lane = "client" THEN o.client ELSE o.callback

\* Mutant: a drive that ends leaves its caller unanswered.
AnswerWithoutFallback(o, d, ends) ==
    /\ waiter' = [l \in ServedLanes |->
                     IF LaneReply(o, l) # "none" THEN NoCmd ELSE waiter[l]]
    /\ told' = told \cup Verdicts(waiter["client"], o.client)
    /\ UNCHANGED orphaned

\* Each lane's waiter takes the first reply sent to its lane; a drive that
\* ends answers its own caller with POLICYSQL_INTERNAL if nothing did.
Answer(o, d, ends) ==
    /\ waiter' = [l \in ServedLanes |->
                     IF LaneReply(o, l) # "none" \/ (l = d /\ ends) THEN NoCmd
                     ELSE waiter[l]]
    /\ told' = told \cup Verdicts(waiter["client"], o.client)
    /\ orphaned' = (orphaned \/ (/\ d \in ServedLanes /\ ends /\ ~flight[d].dying
                                 /\ waiter[d] # NoCmd
                                 /\ LaneReply(o, d) = "none"))

\* One step of drive d and the start of the effect it asks for.  conn: whether
\* this.connection is set as the step starts.  A put or an alarm that does not
\* take is a fault, as is an outcome that `fails`.  A step that leaves no
\* volatile part, a reset and the end of an abandoned drive close the
\* connection; a new deadline is set as a transaction is opened.
Feed(d, ev, conn, fails) ==
    \E late \in {due, TRUE}, took \in BOOLEAN, id \in NextIds :
    \E o \in {Run([due |-> due, late |-> late, snap |-> runtime, id |-> id], ev)} :
      LET type == o.await.type
          ends == type = "none"
          drop == o.reset \/ (ends /\ flight[d].dying)
          write == type \in {"persist", "setTimer"}
      IN  /\ ~took => write
          /\ FaultIf(fails \/ ~took)
          /\ m' = IF drop THEN Fresh(NoRec) ELSE o.m
          /\ loaded' = ~drop
          /\ link' = (conn /\ ~drop /\ ~Idle(o.m) /\ type # "open")
          /\ store' = IF type = "persist" /\ took THEN o.m.rec ELSE store
          /\ alarm' = ((alarm \/ (type = "setTimer" /\ took)) /\ type # "open")
          /\ due' = (due /\ type # "open")
          /\ flight' = [flight EXCEPT ![d] =
                IF ends THEN Idling
                ELSE Awaiting(o.await, took /\ write, conn, flight[d].dying)]
          /\ Answer(o, d, ends)
          /\ UNCHANGED <<runtime, crashes>>

(***************************************************************************)
(* Events                                                                  *)
(***************************************************************************)
ForwardedEvent(cmd) == [NoEvent EXCEPT !.type = "forwarded", !.cmd = cmd]
TimerEvent == [NoEvent EXCEPT !.type = "timerFired"]

\* A request reaches its lane: the lane's waiter is set and the drive starts.
\* A commit sent again supersedes what its earlier attempt was told.
Arrive(lane, cmd) ==
    /\ flight[lane].stage = "idle"
    /\ waiter' = [waiter EXCEPT ![lane] = cmd]
    /\ flight' = [flight EXCEPT ![lane] = Ready(ForwardedEvent(cmd), FALSE)]
    /\ told' = {t \in told : ~(/\ cmd.kind = "commit" /\ t.answer = "rejected"
                               /\ t.seq = cmd.seq /\ t.auth = cmd.auth)}
    /\ UNCHANGED <<memory, store, world, bounds, sent, progress, orphaned>>

ClientArrives == \E cmd \in ClientInputs : Arrive("client", cmd)
CallbackArrives == \E q \in CallbackInputs : Arrive("callback", q)

\* The alarm fires at the deadline; onTimer is not queued behind a lane.
TimerFires ==
    /\ alarm /\ due /\ flight["timer"].stage = "idle"
    /\ alarm' = FALSE
    /\ flight' = [flight EXCEPT !["timer"] = Ready(TimerEvent, FALSE)]
    /\ UNCHANGED <<memory, store, waiter, runtime, due, db, bounds, sent,
                   progress, answers>>

Step(d) ==
    /\ flight[d].stage = "ready"
    /\ Feed(d, flight[d].ev, link, FALSE)
    /\ UNCHANGED <<db, sent, progress>>

Awaits(d, type) == flight[d].stage = "effect" /\ flight[d].ev.type = type

\* What the database did with the statement d awaits (arg 0: a validator's
\* query, which changes nothing).
Ran(d, ran) ==
    /\ ran => Awaits(d, "execute") /\ flight[d].had /\ db = "open"
    /\ applied' = IF ran /\ flight[d].arg # 0 THEN Append(applied, flight[d].arg)
                  ELSE applied
    /\ changed' = (changed \/ (/\ ran
                               /\ m.work.id = flight[d].ev.id
                               /\ m.work.cmd.pay = "write"))

\* load() or step_json throws, on the drive's event or on the outcome of its
\* effect: `abandon` runs next, or, if it was running already, the state is
\* dropped and the caller answered.  A commit or a rollback has cleared
\* this.connection by then; a transaction that was just opened is not the
\* record's yet and is closed with the state.
EngineFault(d) ==
    /\ flight[d].stage # "idle"
    /\ FaultIf(TRUE)
    /\ \E ran \in BOOLEAN : Ran(d, ran)
    /\ IF flight[d].dying
       THEN /\ m' = Fresh(NoRec) /\ loaded' = FALSE /\ link' = FALSE
            /\ flight' = [flight EXCEPT ![d] = Idling]
            /\ waiter' = [l \in ServedLanes |-> IF l = d THEN NoCmd ELSE waiter[l]]
       ELSE /\ flight' = [flight EXCEPT ![d] = Ready(NoEvent, TRUE)]
            /\ link' = (link /\ ~Awaits(d, "commit") /\ ~Awaits(d, "rollback"))
            /\ UNCHANGED <<m, loaded, waiter>>
    /\ UNCHANGED <<store, world, crashes, sent, allowedBy, vetted, answers>>

(***************************************************************************)
(* Effects and their outcomes                                              *)
(***************************************************************************)
OutcomeOf(d, result) == [flight[d].ev EXCEPT !.result = result]

BindingChecked(d) ==
    /\ Awaits(d, "checkBinding")
    /\ \E result \in {"ok", "denied", "failed"} :
         /\ Feed(d, OutcomeOf(d, result), link, FALSE)
         /\ vetted' = (vetted \/ (/\ result = "ok"
                                  /\ m.work.task = "CommitBinding"
                                  /\ m.work.id = flight[d].ev.id))
    /\ UNCHANGED <<db, sent, applied, changed, allowedBy>>

\* A new database transaction: nothing of it has happened yet.
Opened(d) ==
    /\ Awaits(d, "open")
    /\ \/ /\ Feed(d, OutcomeOf(d, "ok"), TRUE, FALSE)
          /\ db' = "open" /\ sent' = NotSent /\ applied' = <<>>
          /\ changed' = FALSE /\ allowedBy' = {} /\ vetted' = FALSE
       \/ /\ Feed(d, OutcomeOf(d, "failed"), FALSE, FALSE)
          /\ UNCHANGED <<db, sent, progress>>

\* A put or an alarm that took may still be reported as failed.
Recorded(d) ==
    /\ Awaits(d, "persist") \/ Awaits(d, "setTimer")
    /\ \/ flight[d].took /\ Feed(d, OutcomeOf(d, "ok"), link, FALSE)
       \/ Feed(d, OutcomeOf(d, "failed"), link, flight[d].took)
    /\ UNCHANGED <<db, sent, progress>>

\* A statement may run and still be refused (a result over a limit) or fail
\* after it ran.
Executed(d) ==
    /\ Awaits(d, "execute")
    /\ \E result \in {"ok", "refused", "failed"}, ran \in BOOLEAN :
         /\ result # "failed" => ran
         /\ Ran(d, ran)
         /\ Feed(d, OutcomeOf(d, result), link, FALSE)
    /\ UNCHANGED <<db, sent, allowedBy, vetted>>

ValidatorReplied(d) ==
    /\ Awaits(d, "callValidator")
    /\ \E result \in {"allow", "deny"} :
         /\ Feed(d, OutcomeOf(d, result), link, FALSE)
         /\ allowedBy' = IF result = "allow" THEN allowedBy \cup {flight[d].arg}
                         ELSE allowedBy
    /\ vetted' = FALSE
    /\ UNCHANGED <<db, sent, applied, changed>>

\* The database layer hands COMMIT to the transport.
SendCommit(d) ==
    /\ Awaits(d, "commit") /\ flight[d].had /\ ~flight[d].took
    /\ flight' = [flight EXCEPT ![d].took = TRUE]
    /\ sent' = [seq |-> flight[d].arg, auth |-> store.auth]
    /\ UNCHANGED <<memory, store, waiter, world, bounds, progress, answers>>

\* COMMIT's answer: applied; provably not sent (the layer then rolls back);
\* success without a word to the database, when the connection was closed and
\* rolled back under it (finish() returns early); or anything else, which
\* proves nothing.
CommitReturned(d) ==
    /\ Awaits(d, "commit")
    /\ \/ /\ flight[d].took /\ db = "committed"
          /\ Feed(d, OutcomeOf(d, "ok"), FALSE, FALSE)
       \/ /\ flight[d].had /\ ~flight[d].took /\ ~link
          /\ Feed(d, OutcomeOf(d, "ok"), FALSE, FALSE)
       \/ /\ flight[d].had /\ ~flight[d].took
          /\ Feed(d, OutcomeOf(d, "not_committed"), FALSE, FALSE)
       \/ /\ flight[d].took \/ ~flight[d].had
          /\ Feed(d, OutcomeOf(d, "unknown"), FALSE, FALSE)
    /\ UNCHANGED <<db, sent, progress>>

RolledBack(d) ==
    /\ Awaits(d, "rollback")
    /\ \/ /\ Feed(d, OutcomeOf(d, "ok"), FALSE, FALSE)
          /\ db' = IF flight[d].had /\ db = "open" THEN "aborted" ELSE db
       \/ Feed(d, OutcomeOf(d, "failed"), FALSE, FALSE) /\ UNCHANGED db
    /\ UNCHANGED <<sent, progress>>

(***************************************************************************)
(* The world                                                               *)
(***************************************************************************)
\* A COMMIT in transit is applied, or the transaction ends without it: a
\* rollback, a lost connection, the database's own deadline.
DbApplies ==
    /\ sent # NotSent /\ db = "open"
    /\ db' = "committed"
    /\ UNCHANGED <<memory, store, flight, waiter, runtime, due, alarm, bounds,
                   sent, progress, answers>>
DbAborts ==
    /\ db = "open"
    /\ db' = "aborted"
    /\ UNCHANGED <<memory, store, flight, waiter, runtime, due, alarm, bounds,
                   sent, progress, answers>>

DeadlinePasses ==
    /\ ~due /\ Current.rec.phase \in HasDeadline
    /\ due' = TRUE
    /\ UNCHANGED <<memory, store, flight, waiter, runtime, alarm, db, bounds,
                   sent, progress, answers>>

\* The owner is lost.  An alarm whose handler did not finish is delivered
\* again; the successor may run another deployment, which may not read the
\* record the old one wrote.
Crash ==
    /\ crashes < MaxCrashes
    /\ crashes' = crashes + 1
    /\ m' = Fresh(NoRec) /\ loaded' = FALSE /\ link' = FALSE
    /\ flight' = [d \in Drives |-> Idling]
    /\ waiter' = [l \in ServedLanes |-> NoCmd]
    /\ alarm' = (alarm \/ flight["timer"].stage # "idle")
    /\ runtime' \in Snapshots
    /\ store' \in {store, IF store = NoRec THEN NoRec ELSE Unreadable}
    /\ UNCHANGED <<due, db, faults, sent, progress, answers>>

Progress(d) == \/ Step(d) \/ BindingChecked(d) \/ Opened(d) \/ Recorded(d)
               \/ Executed(d) \/ ValidatorReplied(d) \/ CommitReturned(d)
               \/ RolledBack(d)

Next == \/ ClientArrives \/ CallbackArrives \/ TimerFires
        \/ \E d \in Drives : Progress(d) \/ SendCommit(d) \/ EngineFault(d)
        \/ DbApplies \/ DbAborts \/ DeadlinePasses \/ Crash

Spec == Init /\ [][Next]_vars

\* A drive that is not idle can always take its next step and eventually
\* does: every effect is bounded by a timeout.  (This is weak fairness of
\* Progress(d), which is enabled exactly while the drive is not idle and
\* always changes flight[d].)  The clock advances, and the platform delivers
\* a due alarm.
DriveRuns(d) == \/ []<>(flight[d].stage = "idle")
                \/ []<><<flight'[d] # flight[d]>>_vars
Fairness == /\ \A d \in Drives : DriveRuns(d)
            /\ WF_vars(TimerFires)
            /\ WF_vars(DeadlinePasses)
FairSpec == Spec /\ Fairness

(***************************************************************************)
(* Properties                                                              *)
(***************************************************************************)
\* The owner's state has its types: the machine's state is always one the
\* Rust types can hold, and only the store may hold an unreadable record.
TypeOK ==
    /\ m \in Machines
    /\ store \in Records \cup {Unreadable}
    /\ loaded \in BOOLEAN /\ link \in BOOLEAN /\ due \in BOOLEAN
    /\ alarm \in BOOLEAN /\ changed \in BOOLEAN /\ vetted \in BOOLEAN
    /\ orphaned \in BOOLEAN
    /\ runtime \in Snapshots
    /\ db \in {"none", "open", "committed", "aborted"}
    /\ faults \in Nat /\ crashes \in Nat
    /\ flight \in [Drives -> Flights]
    /\ waiter \in [ServedLanes -> Commands]
    /\ sent \in [seq : Nat, auth : PrincipalOrNone]
    /\ applied \in Seq(Nat)
    /\ allowedBy \subseteq Nat
    /\ told \subseteq [seq : Nat, auth : PrincipalOrNone,
                       answer : {"committed", "rejected"}]

\* A commit is reported as committed only if the database committed it, and
\* a commit whose last attempt was definitely rejected never commits, however
\* late its COMMIT is applied (the reply codes of step.rs, as the client reads
\* them).
CommitNeverMisreported ==
    \A t \in told :
        /\ t.answer = "committed" => db = "committed"
        /\ t.answer = "rejected" /\ sent.seq = t.seq /\ sent.auth = t.auth =>
               db # "committed"

\* A record that says `committed` is of a transaction the database committed.
CommittedIsTrue == store.phase = "committed" => db = "committed"

\* COMMIT is recorded before it is sent: while the store holds any record but
\* `committing`, `commit_unknown`, `committed` or a lost one, no COMMIT was
\* handed to the database, so a successor may fail the transaction for certain
\* (the persist before Effect::Commit, whatever failed or was lost since).
NotCommitting == {"absent", "active", "validating", "failed", "expired",
                  "rolled_back"}
CommitRecordedFirst == store.phase \in NotCommitting => sent = NotSent

\* Why: while COMMIT is on its way or was sent, the record and the state in
\* memory both say so, and nothing in progress can make them say otherwise;
\* only one drive sends COMMIT, once, and only after the persist its work
\* waits for stored `committing`.
CommitPossible == sent # NotSent \/ \E d \in Drives : Awaits(d, "commit")
SealedByCommit ==
    CommitPossible => /\ store.phase \in Sealing \cup {"unreadable"}
                      /\ loaded => Sealed(m)
SentOnce ==
    /\ \A d \in Drives : Awaits(d, "commit") /\ ~flight[d].took => sent = NotSent
    /\ \A d, e \in Drives : Awaits(d, "commit") /\ Awaits(e, "commit") => d = e
AnnouncedFirst ==
    loaded /\ m.work.task = "CommitPersist" =>
        /\ m.rec.phase = "committing"
        /\ \A d \in Drives :
              Awaits(d, "persist") /\ flight[d].took /\ flight[d].ev.id = m.work.id =>
                  store.phase = "committing"
EventsUnanswered == \A d \in Drives : flight[d].ev.result = "none"
CommitProtocol ==
    SealedByCommit /\ SentOnce /\ AnnouncedFirst /\ EventsUnanswered /\ Consistent(m)

\* COMMIT is handed to the database only after every check that the changed
\* rows trigger was allowed by its validator, and the binding was confirmed
\* after the last of them (checks.rs verdict, CommitBinding).
CommitOnlyChecked ==
    sent # NotSent => /\ changed => allowedBy = 1..Checks
                      /\ vetted

\* The database runs each statement once, in sequence, and a COMMIT covers
\* exactly the statements before its own sequence, whatever was retried,
\* failed, refused or lost in between.
CommitsWhatWasExecuted ==
    /\ applied = [i \in 1..Len(applied) |-> i]
    /\ sent # NotSent => Len(applied) = sent.seq - 1

\* At most one effect at a time uses the connection, although three drives
\* run effects concurrently: a verdict, an expiry or a failed callback waits
\* for the query that holds it.
UsesConnection(d) ==
    /\ flight[d].stage = "effect"
    /\ \/ flight[d].ev.type = "open"
       \/ flight[d].ev.type \in {"execute", "commit", "rollback"} /\ flight[d].had
ConnectionExclusive ==
    \A d, e \in Drives : UsesConnection(d) /\ UsesConnection(e) => d = e

\* A statement, a validation, a commit and a rollback run only for the caller
\* that began the transaction, under the snapshot it began with, on a runtime
\* of that snapshot (Step::command and recheck, across redeployments).
RunsUnderItsOwnBinding ==
    m.work.task \in {"StatementExecute", "Validator", "CommitPersist",
                     "CommitSend", "RollbackSend"} =>
        /\ m.work.cmd.auth = m.rec.auth
        /\ m.work.cmd.snap = m.rec.snap
        /\ m.rec.snap = runtime

\* A terminal record is never rewritten with anything else; a successor that
\* cannot read it discards it (Phase::is_terminal).
TerminalIsFinal ==
    [][store.phase \in Terminal => store' \in {store, Unreadable}]_vars

\* Once COMMIT is handed to the database, no later request opens another
\* transaction under the same name, nor is another COMMIT sent.
CommitIsForever ==
    [][sent # NotSent => /\ sent' = sent
                         /\ db = "committed" => db' = db]_vars

\* Every caller of either lane is eventually answered (the lane's fallback
\* reply, transaction-owner.ts lane()).
EveryCallerAnswered ==
    \A l \in ServedLanes : waiter[l] # NoCmd ~> waiter[l] = NoCmd

\* A validation ends, unless a write or the engine fails: its validator
\* answers, a query of its fails it, or the timer expires it (checks.rs; every
\* validator call has a timeout).
ValidationEnds ==
    Current.rec.phase = "validating" ~>
        (Current.rec.phase # "validating" \/ faults > 0)

\* A successor's record leaves `validating` too: the timer expires it.
SuccessorExpires ==
    (~loaded /\ store.phase = "validating") ~> store.phase # "validating"

\* A begin that finds a transaction of its name awaits the binding check.
BeginRetried == Current.work.task = "BeginBinding" /\ Current.rec.phase # "absent"

\* An expiry is carried out by whatever it finds at work: the connection is
\* released, and an expired validation is persisted, after the query that holds
\* the connection and the rollback that waits for it (step.rs timer, checks.rs
\* expire_validating and after_callback).  A begin retry may swallow either, see
\* ExpiryReleases; nothing else does but a failed write or engine.
ExpiryCarriedOut ==
    [](faults = 0 /\ ~BeginRetried) =>
        /\ (due /\ link) ~> ~link
        /\ Current.rec.phase = "expired" ~> store.phase = "expired"

\* Every event is answered by the step that decides it (the comment in
\* lane()): no drive ends with its caller unanswered.
AnsweredByItsStep == ~orphaned

\* An expiry releases the connection: a timer that finds it busy leaves
\* rollback_requested, and the work in progress rolls back in its place.
\* Violated by a begin retry, whose binding check does not read it.
ExpiryReleases == (due /\ link) ~> ~link

(***************************************************************************)
(* Refinement                                                              *)
(***************************************************************************)
Promise == INSTANCE CommitRecord WITH
    record <- store.phase, sent <- (sent # NotSent), fate <- db

\* The owner keeps the promise of CommitRecord through every interleaving of
\* its drives, every fault and every loss: the store is the record, and what a
\* step writes and what it asks of the database are one of its actions.
KeepsPromise == Promise!Spec
==============================================================================
