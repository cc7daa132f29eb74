--------------------------- MODULE OwnerRecordProofs ---------------------------
(***************************************************************************)
(* The owner keeps the promise of CommitRecord, for every value of the     *)
(* constants.  The record in memory is what the record in the store may    *)
(* become next; only the client's drive opens a transaction, for a name    *)
(* that has no record; an open connection is not being closed, and what    *)
(* answers COMMIT had the connection.  Each of these is kept by every step *)
(* of the machine (OwnerStepProofs!MachineSteps), fault and loss.          *)
(***************************************************************************)
EXTENDS TransactionOwnerProofs, OwnerStepProofs

(***************************************************************************)
(* The inductive invariant.  Current is the state in memory, or what a     *)
(* successor reads from the store.                                         *)
(***************************************************************************)
Unended == {"absent"} \cup HasDeadline
Reach(phase) == {phase} \cup Promise!Follows(phase)

\* What the next write makes of the record is what may follow it.
MemoryFollows ==
    /\ store.phase \in Terminal => Current.rec = store
    /\ store.phase = "unreadable" /\ loaded => Current.rec = Tombstone
    /\ store.phase \in Unended => Current.rec.phase \in Reach(store.phase)

\* A transaction whose record is not stored yet stores it first, or ends.
NotYetStored ==
    store.phase = "absent" =>
        /\ store = NoRec
        /\ \/ Current.rec.phase = "absent"
           \/ /\ Current.rec.phase = "active"
              /\ Current.work.task \in {"BeginPersist", "CloseRollback"}
           \/ Current.rec.phase \in Endings /\ Current.conn # "open"
BegunFirst ==
    Current.work.task = "BeginPersist" =>
        \A e \in Drives :
            Awaits(e, "persist") /\ flight[e].took /\ flight[e].ev.id = Current.work.id =>
                store.phase # "absent"

\* Transactions are opened by the client's drive, for a name without a record.
OpensOnce ==
    \A e \in Drives : Awaits(e, "open") =>
        e = "client" /\ store.phase = "absent" /\ Current.rec.phase = "absent"
UsesOpen == {"execute", "callValidator", "rollback", "commit"}
BeginsOnClient ==
    \A e \in Drives \ {"client"} :
        /\ flight[e].stage = "ready" => flight[e].ev.cmd.kind \in {"none", "query"}
        /\ flight[e].stage = "effect" /\ Current.work.task \in BeginTasks =>
              flight[e].ev.id # Current.work.id
        /\ flight[e].stage = "effect" /\ flight[e].ev.type \in UsesOpen =>
              store.phase # "absent"

\* An open connection is not being opened or closed, and COMMIT is awaited by
\* the work that sent it, with the connection it had.
ClosesOnce ==
    /\ Current.conn = "open" =>
          \A e \in Drives : /\ ~Awaits(e, "rollback") /\ ~Awaits(e, "commit")
                            /\ ~Awaits(e, "open")
    /\ Current.work.task = "CommitSend" =>
          \A e \in Drives : /\ ~Awaits(e, "rollback")
                            /\ Awaits(e, "commit") => /\ flight[e].ev.id = Current.work.id
                                                      /\ flight[e].had => link

\* COMMIT is on its way under a record that can be read, for a sequence.
SentFor ==
    \A e \in Drives : Awaits(e, "commit") =>
        /\ flight[e].arg # 0 /\ (flight[e].took => sent # NotSent)
        /\ store.phase \notin {"unreadable", "discarded"}
CommittedTruly ==
    Current.rec.phase = "committed" => sent # NotSent /\ db = "committed"

\* The state is orderly, none is kept beside an unloaded owner, and a drive
\* about to step holds no outcome.
OrderlyNow == Orderly(Current, runtime) /\ (~loaded => m = Fresh(NoRec))
ReadyEvents == \A e \in Drives : flight[e].stage = "ready" => flight[e].ev.type \notin EffectTypes

RecordInv == /\ MemoryFollows /\ NotYetStored /\ BegunFirst /\ OpensOnce
             /\ BeginsOnClient /\ ClosesOnce /\ SentFor /\ CommittedTruly
             /\ OrderlyNow /\ ReadyEvents

(***************************************************************************)
(* A step of a drive                                                       *)
(***************************************************************************)
\* The event a drive steps: its own, or the outcome of the effect it awaits.
Heard(d, ev) ==
    \/ flight[d].stage = "ready" /\ ev = flight[d].ev /\ ev.type \notin EffectTypes
    \/ /\ Awaits(d, ev.type) /\ ev.type \in EffectTypes /\ ev.id = flight[d].ev.id
       /\ ev.type = "persist" /\ ev.result = "ok" => flight[d].took

\* What a step of the machine made of the current state.
Moved(h, ev, o) ==
    IF ~loaded /\ store = Unreadable
    THEN /\ o.reset = FALSE /\ o.m.rec = Tombstone /\ o.m.conn = "none"
         /\ o.m.work.task = "Reply" /\ o.await.type = "persist" /\ o.await.id = h.id
         /\ Orderly(o.m, h.snap)
    ELSE Current \in Machines /\ Consistent(Current) /\ Steps(Current, h, ev, o)

\* What drive d, stepping with the connection conn, leaves behind.
Fed(d, conn, h, took, o) ==
    /\ loaded' \in BOOLEAN /\ runtime' = runtime /\ h.snap = runtime
    /\ \/ loaded' /\ m' = o.m /\ o.reset = FALSE
       \/ ~loaded' /\ m' = Fresh(NoRec) /\ o.await.type = "none"
    /\ store' = IF o.await.type = "persist" /\ took THEN o.m.rec ELSE store
    /\ conn /\ loaded' /\ HasWork(o.m) /\ o.await.type # "open" => link'
    /\ Current.work.id # h.id /\ \A e \in Drives : flight[e].ev.id # h.id
    /\ \A e \in Drives \ {d} : flight'[e] = flight[e]
    /\ o.await.type = "none" => flight'[d].stage = "idle"
    /\ o.await.type # "none" =>
          /\ flight'[d].stage = "effect" /\ flight'[d].ev.type = o.await.type
          /\ flight'[d].ev.id = o.await.id /\ flight'[d].arg = o.await.arg
          /\ flight'[d].took => took /\ o.await.type \in {"persist", "setTimer"}
          /\ flight'[d].had = conn

\* The drive that awaits an effect.
LEMMA EffectFlight ==
    ASSUME FedTypes, NEW d \in Drives, NEW effect \in Effects, NEW took, NEW conn,
           NEW dying,
           flight' = [flight EXCEPT ![d] =
                         IF effect.type = "none" THEN Idling
                         ELSE Awaiting(effect, took, conn, dying)]
    PROVE  /\ \A e \in Drives \ {d} : flight'[e] = flight[e]
           /\ effect.type = "none" => flight'[d].stage = "idle"
           /\ effect.type # "none" =>
                 /\ flight'[d].stage = "effect" /\ flight'[d].ev.type = effect.type
                 /\ flight'[d].ev.id = effect.id /\ flight'[d].arg = effect.arg
                 /\ flight'[d].took = took /\ flight'[d].had = conn
<1>1. /\ flight \in [Drives -> Flights]
      /\ flight'[d] = IF effect.type = "none" THEN Idling
                      ELSE Awaiting(effect, took, conn, dying)
      /\ \A e \in Drives \ {d} : flight'[e] = flight[e]
  BY DEF FedTypes
<1> DEFINE ev == [NoEvent EXCEPT !.type = effect.type, !.id = effect.id]
           w == Awaiting(effect, took, conn, dying)
<1>2. ev.type = effect.type /\ ev.id = effect.id BY DEF NoEvent
<1>3. /\ w.ev = ev /\ w.stage = "effect" /\ w.took = took /\ w.had = conn
      /\ w.arg = effect.arg
  <2>1. w = [stage |-> "effect", arg |-> effect.arg, took |-> took, had |-> conn,
             dying |-> dying, ev |-> ev]
    BY DEF Awaiting
  <2> HIDE DEF ev, w
  <2> QED BY <2>1
<1> HIDE DEF ev, w
<1>4. Idling.stage = "idle" BY DEF Idling
<1>5. CASE effect.type = "none" BY <1>1, <1>4, <1>5
<1>6. CASE effect.type # "none" BY <1>1, <1>2, <1>3, <1>6 DEF w
<1> QED BY <1>1, <1>5, <1>6

\* The state a step starts from is orderly, so the step is one of the machine's.
LEMMA RunMoved ==
    ASSUME FedTypes, CommitProtocol, OrderlyNow, NEW h \in HostFacts,
           h.snap = runtime, NEW ev \in Events
    PROVE  Moved(h, ev, Run(h, ev))
<1>1. CASE ~loaded /\ store = Unreadable
  <2> DEFINE o == FinishOutput(Discard(h, ev))
  <2>1. Run(h, ev) = o BY <1>1 DEF Run
  <2>2. /\ o.reset = FALSE /\ o.m.rec = Tombstone /\ o.m.conn = "none"
        /\ o.m.work.task = "Reply"
        /\ o.await.type = "persist" /\ o.await.id = h.id
        /\ Orderly(o.m, h.snap)
    BY DiscardSteps
  <2> HIDE DEF o
  <2> QED BY <1>1, <2>1, <2>2 DEF Moved
<1>2. CASE ~(~loaded /\ store = Unreadable)
  <2>1. Run(h, ev) = RunDispatch(Current, h, ev) BY <1>2 DEF Run
  <2>2. Current \in Machines /\ Consistent(Current) BY <1>2, CurrentFacts
  <2>3. Orderly(Current, h.snap) BY DEF OrderlyNow
  <2>4. Steps(Current, h, ev, Run(h, ev))
    <3> HIDE DEF Current
    <3> QED BY <2>1, <2>2, <2>3, MachineSteps
  <2> QED BY <1>2, <2>2, <2>4 DEF Moved
<1> QED BY <1>1, <1>2

\* The step of a drive, taken apart.
LEMMA FeedStep ==
    ASSUME FedTypes, CommitProtocol, OrderlyNow, NEW d \in Drives, NEW ev \in Events,
           NEW conn, NEW fails, Feed(d, ev, conn, fails)
    PROVE  \E h \in HostFacts, took \in BOOLEAN, o \in Outputs :
              /\ o = Run(h, ev) /\ Moved(h, ev, o) /\ Fed(d, conn, h, took, o)
              /\ Tells(o)
<1>1. PICK h \in HostFacts, took \in BOOLEAN :
        LET o == Run(h, ev)
        IN  /\ h.id \in NextIds /\ h.snap = runtime /\ runtime' = runtime
            /\ link' = (conn /\ loaded' /\ ~Idle(o.m) /\ o.await.type # "open")
            /\ o \in Outputs
            /\ loaded' = ~(o.reset \/ (o.await.type = "none" /\ flight[d].dying))
            /\ m' = IF loaded' THEN o.m ELSE Fresh(NoRec)
            /\ store' = IF o.await.type = "persist" /\ took THEN o.m.rec ELSE store
            /\ flight' = [flight EXCEPT ![d] =
                  IF o.await.type = "none" THEN Idling
                  ELSE Awaiting(o.await,
                                took /\ o.await.type \in {"persist", "setTimer"},
                                conn, flight[d].dying)]
            /\ Tells(o)
  BY FeedFacts
<1> DEFINE o == Run(h, ev)
           wrote == took /\ o.await.type \in {"persist", "setTimer"}
<1>2. /\ h.id \in NextIds /\ h.snap = runtime /\ runtime' = runtime
      /\ link' = (conn /\ loaded' /\ ~Idle(o.m) /\ o.await.type # "open")
      /\ o \in Outputs
      /\ loaded' = ~(o.reset \/ (o.await.type = "none" /\ flight[d].dying))
      /\ m' = IF loaded' THEN o.m ELSE Fresh(NoRec)
      /\ store' = IF o.await.type = "persist" /\ took THEN o.m.rec ELSE store
      /\ flight' = [flight EXCEPT ![d] =
            IF o.await.type = "none" THEN Idling
            ELSE Awaiting(o.await, wrote, conn, flight[d].dying)]
      /\ Tells(o)
  BY <1>1
<1>3. Moved(h, ev, o) BY <1>2, RunMoved
<1> HIDE DEF o
<1>4. o.await \in Effects /\ o.reset \in BOOLEAN BY <1>2 DEF Outputs
<1>5. /\ \A e \in Drives \ {d} : flight'[e] = flight[e]
      /\ o.await.type = "none" => flight'[d].stage = "idle"
      /\ o.await.type # "none" =>
            /\ flight'[d].stage = "effect" /\ flight'[d].ev.type = o.await.type
            /\ flight'[d].ev.id = o.await.id /\ flight'[d].arg = o.await.arg
            /\ flight'[d].took = wrote /\ flight'[d].had = conn
  <2> HIDE DEF wrote
  <2> QED BY <1>2, <1>4, EffectFlight
<1>6. Current.work.id # h.id /\ \A e \in Drives : flight[e].ev.id # h.id
  BY <1>2 DEF NextIds, UsedIds
<1>7. o.reset = TRUE => o.await.type = "none"
  BY <1>3 DEF Moved, Steps, Resets, NoEffect
<1>8. loaded' \in BOOLEAN /\ (loaded' => o.reset = FALSE)
      /\ (~loaded' => o.await.type = "none")
  BY <1>2, <1>4, <1>7
<1>9. conn /\ loaded' /\ HasWork(o.m) /\ o.await.type # "open" => link'
  BY <1>2 DEF Idle
<1>10. Fed(d, conn, h, took, o)
  BY <1>2, <1>5, <1>6, <1>8, <1>9 DEF Fed
<1> QED BY <1>2, <1>3, <1>10 DEF o

(***************************************************************************)
(* Steps that leave the machine alone, or drop it                          *)
(***************************************************************************)
\* A drive goes on as it was, stops, or is about to step an event of its own.
Stands(e) ==
    \/ flight'[e] = flight[e]
    \/ flight'[e].stage = "idle"
    \/ /\ flight'[e].stage = "ready" /\ flight'[e].ev.type \notin EffectTypes
       /\ e # "client" => flight'[e].ev.cmd.kind \in {"none", "query"}

\* The effects of such drives were awaited before.
LEMMA StandsFacts ==
    ASSUME RecordInv, \A e \in Drives : Stands(e)
    PROVE  /\ \A e \in Drives : flight'[e].stage = "effect" => flight'[e] = flight[e]
           /\ \A e \in Drives, type \in EffectTypes :
                 Awaits(e, type)' => Awaits(e, type) /\ flight'[e] = flight[e]
           /\ ReadyEvents'
           /\ \A e \in Drives \ {"client"} :
                 flight'[e].stage = "ready" => flight'[e].ev.cmd.kind \in {"none", "query"}
<1>1. \A e \in Drives : flight'[e].stage = "effect" => flight'[e] = flight[e]
  BY DEF Stands
<1>2. \A e \in Drives, type \in EffectTypes :
         Awaits(e, type)' => Awaits(e, type) /\ flight'[e] = flight[e]
  BY <1>1 DEF Awaits
<1>3. ReadyEvents' BY DEF RecordInv, ReadyEvents, Stands
<1>4. \A e \in Drives \ {"client"} :
         flight'[e].stage = "ready" => flight'[e].ev.cmd.kind \in {"none", "query"}
  BY DEF RecordInv, BeginsOnClient, Stands
<1> QED BY <1>1, <1>2, <1>3, <1>4

\* The names of the effects the invariant speaks of.
LEMMA EffectNames ==
    {"open", "persist", "rollback", "commit", "execute", "callValidator",
     "checkBinding", "setTimer"} \subseteq EffectTypes
BY DEF EffectTypes

\* A record is not unreadable content; the record of a name that was committed,
\* or whose COMMIT is awaited, is not absent.
LEMMA RecordPhases ==
    ASSUME FedTypes
    PROVE  /\ store.phase = "unreadable" <=> store = Unreadable
           /\ store.phase \in Phases \cup {"unreadable"}
BY UnreadableFacts DEF FedTypes, Records, Unreadable, NoRec, Phases, HasDeadline, Terminal

\* COMMIT excludes a name without a record.
LEMMA AbsentUnsent ==
    ASSUME CommitProtocol, store.phase = "absent"
    PROVE  sent = NotSent /\ \A e \in Drives : ~Awaits(e, "commit")
BY DEF CommitProtocol, SealedByCommit, CommitPossible, Sealing

\* What is stored as committed is so in memory.
LEMMA StoredCommitted ==
    ASSUME RecordInv, store.phase = "committed"
    PROVE  sent # NotSent /\ db = "committed"
BY DEF RecordInv, MemoryFollows, CommittedTruly, Terminal

\* The state in memory is dropped: the successor goes on from the store.
LEMMA DroppedInv ==
    ASSUME FedTypes, CommitProtocol, RecordInv, store' = store, loaded' = FALSE,
           m' = Fresh(NoRec), \A e \in Drives : Stands(e),
           sent' = sent \/ store.phase = "absent",
           db' = db \/ store.phase = "absent" \/ db # "committed"
    PROVE  RecordInv'
<1> DEFINE f == Fresh(store)
<1>1. Current' = f BY DEF Current
<1>2. f.rec = store /\ f.conn = "none" /\ f.work.task = "none" /\ Orderly(f, runtime')
  BY FreshOrderly DEF NoWork
<1> HIDE DEF f
<1>3. /\ \A e \in Drives : flight'[e].stage = "effect" => flight'[e] = flight[e]
      /\ \A e \in Drives, type \in EffectTypes :
            Awaits(e, type)' => Awaits(e, type) /\ flight'[e] = flight[e]
      /\ ReadyEvents'
      /\ \A e \in Drives \ {"client"} :
            flight'[e].stage = "ready" => flight'[e].ev.cmd.kind \in {"none", "query"}
  BY StandsFacts
<1>4. MemoryFollows' BY <1>1, <1>2 DEF MemoryFollows, Reach
<1>5. NotYetStored' BY <1>1, <1>2 DEF RecordInv, NotYetStored
<1>6. BegunFirst' BY <1>1, <1>2 DEF BegunFirst
<1>7. OpensOnce' BY <1>1, <1>2, <1>3, EffectNames DEF RecordInv, OpensOnce
<1>8. BeginsOnClient'
  BY <1>1, <1>2, <1>3 DEF RecordInv, BeginsOnClient, BeginTasks
<1>9. ClosesOnce' BY <1>1, <1>2 DEF ClosesOnce
<1>10. SentFor'
  BY <1>3, EffectNames, AbsentUnsent DEF RecordInv, SentFor
<1>11. CommittedTruly' BY <1>1, <1>2, StoredCommitted DEF CommittedTruly
<1>12. OrderlyNow' BY <1>1, <1>2 DEF OrderlyNow
<1> QED BY <1>3, <1>4, <1>5, <1>6, <1>7, <1>8, <1>9, <1>10, <1>11, <1>12 DEF RecordInv

\* The state in memory stays.
LEMMA SameInv ==
    ASSUME RecordInv, store' = store, loaded' = loaded, m' = m, runtime' = runtime,
           \A e \in Drives : Stands(e), sent' = sent, db' = db \/ db # "committed",
           \/ link' = link
           \/ Current.work.task # "CommitSend"
           \/ \A e \in Drives : ~Awaits(e, "commit")'
    PROVE  RecordInv'
<1>1. Current' = Current BY DEF Current
<1>2. /\ \A e \in Drives : flight'[e].stage = "effect" => flight'[e] = flight[e]
      /\ \A e \in Drives, type \in EffectTypes :
            Awaits(e, type)' => Awaits(e, type) /\ flight'[e] = flight[e]
      /\ ReadyEvents'
      /\ \A e \in Drives \ {"client"} :
            flight'[e].stage = "ready" => flight'[e].ev.cmd.kind \in {"none", "query"}
  BY StandsFacts
<1> HIDE DEF Current
<1>3. MemoryFollows' BY <1>1 DEF RecordInv, MemoryFollows
<1>4. NotYetStored' BY <1>1 DEF RecordInv, NotYetStored
<1>5. BegunFirst' BY <1>1, <1>2, EffectNames DEF RecordInv, BegunFirst
<1>6. OpensOnce' BY <1>1, <1>2, EffectNames DEF RecordInv, OpensOnce
<1>7. BeginsOnClient' BY <1>1, <1>2 DEF RecordInv, BeginsOnClient
<1>8. ClosesOnce' BY <1>1, <1>2, EffectNames DEF RecordInv, ClosesOnce
<1>9. SentFor' BY <1>2, EffectNames DEF RecordInv, SentFor
<1>10. CommittedTruly' BY <1>1 DEF RecordInv, CommittedTruly
<1>11. OrderlyNow' BY <1>1 DEF RecordInv, OrderlyNow
<1> QED BY <1>2, <1>3, <1>4, <1>5, <1>6, <1>7, <1>8, <1>9, <1>10, <1>11 DEF RecordInv

(***************************************************************************)
(* Steps of the machine                                                    *)
(***************************************************************************)
\* The work an event answers belongs to the drive that heard it.
LEMMA AnsweredFacts ==
    ASSUME RecordInv, NEW d \in Drives, NEW ev \in Events, Heard(d, ev),
           Current \in Machines, Answered(Current, ev)
    PROVE  /\ Awaits(d, AwaitedBy(Current.work.task))
           /\ flight[d].ev.id = Current.work.id /\ flight[d].stage = "effect"
           /\ Current.work.task \in BeginTasks => d = "client"
           /\ Current.work.task = "BeginOpen" =>
                 store.phase = "absent" /\ Current.rec.phase = "absent"
           /\ Current.work.task = "BeginPersist" /\ ev.result = "ok" =>
                 store.phase # "absent"
<1> HIDE DEF Current
<1>1. AwaitedBy(Current.work.task) \in EffectTypes
  BY MachineFields, WorkFields, AwaitedByType DEF Answered, HasWork, Heard, Events,
     AwaitedBy, EffectTypes, Tasks
<1>2. /\ Awaits(d, ev.type) /\ ev.type = AwaitedBy(Current.work.task)
      /\ ev.id = flight[d].ev.id /\ Current.work.id = ev.id
      /\ ev.type = "persist" /\ ev.result = "ok" => flight[d].took
  BY <1>1 DEF Heard, Answered
<1>3. flight[d].stage = "effect" BY <1>2 DEF Awaits
<1>4. Current.work.task \in BeginTasks => d = "client"
  BY <1>2, <1>3 DEF RecordInv, BeginsOnClient
<1>5. Current.work.task = "BeginOpen" =>
         store.phase = "absent" /\ Current.rec.phase = "absent"
  BY <1>2, AwaitedEffects DEF RecordInv, OpensOnce
<1>6. Current.work.task = "BeginPersist" /\ ev.result = "ok" => store.phase # "absent"
  BY <1>2, AwaitedEffects DEF RecordInv, BegunFirst
<1> QED BY <1>2, <1>3, <1>4, <1>5, <1>6

\* The phases a record in memory may have, by the one in the store.
LEMMA ReachFacts ==
    /\ Reach("absent") = {"absent", "active"} \cup Endings
    /\ Reach("active") = {"active", "validating", "committing", "commit_unknown"}
                         \cup Endings
    /\ Reach("validating") = {"validating", "committing", "commit_unknown"} \cup Endings
    /\ Reach("committing") = {"committing", "committed", "commit_unknown"} \cup Endings
    /\ Reach("unreadable") = {"unreadable", "discarded"}
BY DEF Reach, Promise!Follows, Promise!Ended, Endings

\* What a step makes of the record may follow the one in the store.
LEMMA NextRecord ==
    ASSUME FedTypes, CommitProtocol, RecordInv, NEW d \in Drives, NEW ev \in Events,
           NEW h \in HostFacts, NEW o \in Outputs, Heard(d, ev), Moved(h, ev, o),
           o.reset = FALSE
    PROVE  /\ store.phase \in Terminal => o.m.rec = store
           /\ store.phase = "unreadable" => o.m.rec = Tombstone
           /\ store.phase \in Unended => o.m.rec.phase \in Reach(store.phase)
<1>0. Unreadable.phase = "unreadable" /\ Tombstone.phase = "discarded"
  BY DEF Unreadable, Tombstone, NoRec
<1>1. CASE ~loaded /\ store = Unreadable
  <2>1. o.m.rec = Tombstone BY <1>1 DEF Moved
  <2> QED BY <1>0, <1>1, <2>1 DEF Terminal, Unended, HasDeadline
<1>2. CASE ~(~loaded /\ store = Unreadable)
  <2> DEFINE c == Current
  <2>1. /\ c \in Machines /\ RecordSteps(c, ev, o) /\ StartSteps(c, ev, o)
    BY <1>2 DEF Moved, Steps, Resets
  <2>2. /\ store.phase \in Terminal => c.rec = store
        /\ store.phase = "unreadable" => c.rec = Tombstone
        /\ store.phase \in Unended => c.rec.phase \in Reach(store.phase)
    BY <1>2, RecordPhases DEF RecordInv, MemoryFollows
  <2>3. Answered(c, ev) =>
           /\ Awaits(d, AwaitedBy(c.work.task))
           /\ c.work.task = "BeginPersist" /\ ev.result = "ok" => store.phase # "absent"
    BY <2>1, AnsweredFacts
  <2>4. store.phase = "absent" =>
           \/ c.rec.phase = "absent"
           \/ /\ c.rec.phase = "active"
              /\ c.work.task \in {"BeginPersist", "CloseRollback"}
           \/ c.rec.phase \in Endings
    BY DEF RecordInv, NotYetStored
  <2>5. AnsweredAs(c, ev, "CommitSend", "ok") => store.phase \in Sealing \cup {"unreadable"}
    BY <2>3, AwaitedEffects DEF AnsweredAs, CommitProtocol, SealedByCommit, CommitPossible
  <2> HIDE DEF c
  <2>6. c.rec.phase \in Terminal => o.m.rec = c.rec BY <2>1 DEF RecordSteps
  <2>7. ASSUME store.phase \in Unended PROVE o.m.rec.phase \in Reach(store.phase)
    <3>1. CASE c.rec.phase \in Terminal BY <2>2, <2>6, <2>7, <3>1
    <3>2. CASE c.rec.phase \notin Terminal
      <4>1. o.m.rec.phase \in Leads(c.rec.phase) BY <2>1, <3>2 DEF RecordSteps
      <4>2. CASE store.phase = "absent"
        <5>1. c.rec.phase \in {"absent", "active"}
          BY <2>4, <3>2, <4>2 DEF Endings, Terminal
        <5>2. CASE c.rec.phase = "absent" BY <4>1, <4>2, <5>2, ReachFacts DEF Leads
        <5>3. CASE c.rec.phase = "active"
          <6>1. c.work.task \in {"BeginPersist", "CloseRollback"}
            BY <2>4, <4>2, <5>3 DEF Endings
          <6>2. ~AnsweredAs(c, ev, "BeginPersist", "ok") BY <2>3, <4>2 DEF AnsweredAs
          <6>3. o.m.rec.phase \in Endings \cup {"active"}
            BY <2>1, <5>3, <6>1, <6>2 DEF StartSteps
          <6> QED BY <4>2, <6>3, ReachFacts
        <5> QED BY <5>1, <5>2, <5>3
      <4>3. CASE store.phase \in {"active", "validating"}
        <5>1. o.m.rec.phase # "committed"
          BY <2>1, <2>5, <3>2, <4>3 DEF RecordSteps, Sealing, Terminal
        <5>2. CASE store.phase = "active"
          <6>1. c.rec.phase \in {"active", "validating", "committing"}
            BY <2>2, <2>7, <3>2, <5>2, ReachFacts DEF Endings, Terminal
          <6> QED BY <4>1, <5>1, <5>2, <6>1, ReachFacts DEF Leads
        <5>3. CASE store.phase = "validating"
          <6>1. c.rec.phase \in {"validating", "committing"}
            BY <2>2, <2>7, <3>2, <5>3, ReachFacts DEF Endings, Terminal
          <6> QED BY <4>1, <5>1, <5>3, <6>1, ReachFacts DEF Leads
        <5> QED BY <4>3, <5>2, <5>3
      <4>4. CASE store.phase = "committing"
        <5>1. c.rec.phase = "committing"
          BY <2>2, <2>7, <3>2, <4>4, ReachFacts DEF Endings, Terminal
        <5> QED BY <4>1, <4>4, <5>1, ReachFacts DEF Leads
      <4> QED BY <2>7, <4>2, <4>3, <4>4 DEF Unended, HasDeadline
    <3> QED BY <3>1, <3>2
  <2> QED BY <1>0, <2>2, <2>6, <2>7 DEF Terminal
<1> QED BY <1>1, <1>2

\* What the step writes.
LEMMA Written ==
    ASSUME FedTypes, CommitProtocol, RecordInv, NEW d \in Drives, NEW ev \in Events,
           NEW conn, NEW h \in HostFacts, NEW took \in BOOLEAN, NEW o \in Outputs,
           Heard(d, ev), Moved(h, ev, o), Fed(d, conn, h, took, o)
    PROVE  /\ store' = store \/ (o.await.type = "persist" /\ store' = o.m.rec)
           /\ o.await.type = "persist" => o.reset = FALSE /\ o.m.rec.phase # "absent"
           /\ store'.phase = "absent" => store' = store
           /\ store.phase \in Terminal => store' = store
           /\ store'.phase \in Reach(store.phase)
<1>0. Tombstone.phase = "discarded" BY DEF Tombstone, NoRec
<1>1. store' = store \/ (o.await.type = "persist" /\ store' = o.m.rec) BY DEF Fed
<1>2. o.await.type = "persist" => o.reset = FALSE /\ o.m.rec.phase # "absent"
  BY <1>0 DEF Moved, Steps, Resets, RecordSteps, NoEffect
<1>3. store.phase \in Terminal => store' = store BY <1>1, <1>2, NextRecord
<1>4. store'.phase \in Reach(store.phase)
  <2>1. CASE store' = store BY <2>1 DEF Reach
  <2>2. CASE store' # store
    <3>1. o.reset = FALSE /\ store' = o.m.rec BY <1>1, <1>2, <2>2
    <3>2. store.phase \in Unended \cup {"unreadable"}
      BY <1>3, <2>2, RecordPhases DEF Phases, Unended
    <3> QED BY <1>0, <3>1, <3>2, NextRecord, ReachFacts
  <2> QED BY <2>1, <2>2
<1> QED BY <1>1, <1>2, <1>3, <1>4

\* What the step's outcome was to the database, and to the connection.
Happened(d, ev, conn) ==
    /\ \/ sent' = sent /\ db' = db
       \/ sent' = sent /\ db = "open" /\ db' = "aborted"
       \/ sent' = NotSent /\ db' = "open" /\ Awaits(d, "open")
    /\ conn = link \/ Awaits(d, "open") \/ Awaits(d, "rollback") \/ Awaits(d, "commit")
    /\ ev.type = "commit" /\ ev.result = "ok" =>
          \/ flight[d].took /\ db = "committed"
          \/ flight[d].had /\ ~link

\* What it was to the history of the transaction: a new one begins, a statement
\* ran, a validator answered, a binding was checked, or nothing.
SameProgress == /\ applied' = applied /\ changed' = changed
                /\ allowedBy' = allowedBy /\ vetted' = vetted
Progressed(d, ev) ==
    \/ /\ Awaits(d, "open") /\ ev.result = "ok" /\ sent' = NotSent
       /\ applied' = <<>> /\ changed' = FALSE /\ allowedBy' = {} /\ vetted' = FALSE
    \/ /\ sent' = sent /\ SameProgress
       /\ ev.type \notin {"execute", "callValidator", "checkBinding"}
       /\ ev.type = "open" => ev.result # "ok"
    \/ /\ sent' = sent /\ Awaits(d, "execute")
       /\ \E ran \in BOOLEAN : Ran(d, ran) /\ (ev.result # "failed" => ran)
       /\ allowedBy' = allowedBy /\ vetted' = vetted
    \/ /\ sent' = sent /\ Awaits(d, "callValidator")
       /\ applied' = applied /\ changed' = changed /\ vetted' = FALSE
       /\ allowedBy' = IF ev.result = "allow" THEN allowedBy \cup {flight[d].arg}
                       ELSE allowedBy
    \/ /\ sent' = sent /\ Awaits(d, "checkBinding")
       /\ applied' = applied /\ changed' = changed /\ allowedBy' = allowedBy
       /\ vetted' = (vetted \/ (/\ ev.result = "ok"
                                /\ m.work.task = "CommitBinding"
                                /\ m.work.id = flight[d].ev.id))

\* The step that discards an unreadable record keeps the invariant.
LEMMA DiscardInv ==
    ASSUME FedTypes, CommitProtocol, RecordInv, NEW d \in Drives, NEW ev \in Events,
           NEW conn, NEW h \in HostFacts, NEW took \in BOOLEAN, NEW o \in Outputs,
           Heard(d, ev), Moved(h, ev, o), Fed(d, conn, h, took, o), loaded',
           ~loaded, store = Unreadable
    PROVE  RecordInv'
<1>0. Unreadable.phase = "unreadable" /\ Tombstone.phase = "discarded"
  BY DEF Unreadable, Tombstone, NoRec
<1>1. /\ o.reset = FALSE /\ o.m.rec = Tombstone /\ o.m.conn = "none"
      /\ o.m.work.task = "Reply" /\ o.await.type = "persist"
      /\ Orderly(o.m, h.snap)
  BY DEF Moved
<1>2. Current' = o.m BY DEF Fed, Current
<1>3. store'.phase \in {"unreadable", "discarded"}
      /\ (store'.phase = "discarded" => store' = Tombstone)
  BY <1>0, <1>1 DEF Fed
<1>4. /\ flight'[d].stage = "effect" /\ flight'[d].ev.type = "persist"
      /\ \A e \in Drives \ {d} : flight'[e] = flight[e]
  BY <1>1 DEF Fed
<1>5. \A e \in Drives : ~Awaits(e, "open") /\ ~Awaits(e, "commit")
  BY <1>0 DEF RecordInv, OpensOnce, SentFor
<1>6. \A e \in Drives : ~Awaits(e, "open")' /\ ~Awaits(e, "commit")'
  BY <1>4, <1>5 DEF Awaits
<1>7. MemoryFollows'
  BY <1>1, <1>2, <1>3 DEF MemoryFollows, Unended, HasDeadline, Terminal
<1>8. NotYetStored' /\ BegunFirst' BY <1>3 DEF NotYetStored, BegunFirst
<1>9. OpensOnce' /\ SentFor' BY <1>6 DEF OpensOnce, SentFor
<1>10. BeginsOnClient'
  BY <1>1, <1>2, <1>3, <1>4 DEF RecordInv, BeginsOnClient, BeginTasks
<1>11. ClosesOnce' BY <1>1, <1>2 DEF ClosesOnce
<1>12. CommittedTruly' BY <1>0, <1>1, <1>2 DEF CommittedTruly
<1>13. OrderlyNow' BY <1>1, <1>2 DEF OrderlyNow, Fed
<1>14. ReadyEvents' BY <1>4 DEF RecordInv, ReadyEvents
<1> QED BY <1>7, <1>8, <1>9, <1>10, <1>11, <1>12, <1>13, <1>14 DEF RecordInv

\* A step that drops the state in memory keeps the invariant.
LEMMA DropInv ==
    ASSUME FedTypes, CommitProtocol, RecordInv, NEW d \in Drives, NEW ev \in Events,
           NEW conn, NEW h \in HostFacts, NEW took \in BOOLEAN, NEW o \in Outputs,
           Fed(d, conn, h, took, o), Happened(d, ev, conn), ~loaded'
    PROVE  RecordInv'
<1>1. /\ loaded' = FALSE /\ m' = Fresh(NoRec) /\ o.await.type = "none"
  BY DEF Fed
<1>2. store' = store BY <1>1 DEF Fed
<1>3. \A e \in Drives : Stands(e) BY <1>1 DEF Fed, Stands
<1>4. Awaits(d, "open") => store.phase = "absent" BY DEF RecordInv, OpensOnce
<1>5. sent' = sent \/ store.phase = "absent" BY <1>4 DEF Happened
<1>6. db' = db \/ store.phase = "absent" \/ db # "committed" BY <1>4 DEF Happened
<1> QED BY <1>1, <1>2, <1>3, <1>5, <1>6, DroppedInv

\* Every other step of the machine keeps the invariant, part by part.
LEMMA LiveInv ==
    ASSUME FedTypes, CommitProtocol, RecordInv, NEW d \in Drives, NEW ev \in Events,
           NEW conn, NEW h \in HostFacts, NEW took \in BOOLEAN, NEW o \in Outputs,
           o = Run(h, ev), Heard(d, ev), Moved(h, ev, o), Fed(d, conn, h, took, o),
           Happened(d, ev, conn), loaded', ~(~loaded /\ store = Unreadable)
    PROVE  RecordInv'
<1> DEFINE c == Current
           type == o.await.type
<1>1. /\ c \in Machines /\ o.reset = FALSE
      /\ RecordSteps(c, ev, o) /\ StartSteps(c, ev, o) /\ ConnSteps(c, ev, o)
      /\ WorkSteps(c, h, ev, o) /\ Orderly(o.m, h.snap)
  BY DEF Moved, Steps, Resets, Fed
<1>2. Current' = o.m BY DEF Fed, Current
<1>3. Answered(c, ev) =>
         /\ Awaits(d, AwaitedBy(c.work.task))
         /\ flight[d].ev.id = c.work.id /\ flight[d].stage = "effect"
         /\ c.work.task \in BeginTasks => d = "client"
         /\ c.work.task = "BeginOpen" => store.phase = "absent" /\ c.rec.phase = "absent"
         /\ c.work.task = "BeginPersist" /\ ev.result = "ok" => store.phase # "absent"
  BY <1>1, AnsweredFacts
<1>4. /\ store' = store \/ (type = "persist" /\ store' = o.m.rec)
      /\ type = "persist" => o.reset = FALSE /\ o.m.rec.phase # "absent"
      /\ store'.phase = "absent" => store' = store
      /\ store.phase \in Terminal => store' = store
      /\ store'.phase \in Reach(store.phase)
  BY Written
<1>5. /\ store.phase \in Terminal => o.m.rec = store
      /\ store.phase = "unreadable" => o.m.rec = Tombstone
      /\ store.phase \in Unended => o.m.rec.phase \in Reach(store.phase)
  BY <1>1, NextRecord
<1>6. /\ c.work.id # h.id /\ \A e \in Drives : flight[e].ev.id # h.id
      /\ \A e \in Drives \ {d} : flight'[e] = flight[e]
      /\ type = "none" => flight'[d].stage = "idle"
      /\ type # "none" =>
            /\ flight'[d].stage = "effect" /\ flight'[d].ev.type = type
            /\ flight'[d].ev.id = h.id /\ flight'[d].arg = o.await.arg
            /\ flight'[d].took => took /\ type \in {"persist", "setTimer"}
            /\ flight'[d].had = conn
  BY <1>1 DEF Fed, WorkSteps
<1>7. /\ \A e \in Drives \ {d}, t \in EffectTypes : Awaits(e, t)' <=> Awaits(e, t)
      /\ \A t \in EffectTypes : Awaits(d, t)' => t = type
  BY <1>6 DEF Awaits, EffectTypes
<1>8. /\ store.phase \in Terminal => c.rec = store
      /\ store.phase = "unreadable" => c.rec = Tombstone
      /\ store.phase \in Unended => c.rec.phase \in Reach(store.phase)
  BY RecordPhases DEF RecordInv, MemoryFollows
<1>9. store.phase = "absent" =>
         /\ store = NoRec
         /\ \/ c.rec.phase = "absent"
            \/ /\ c.rec.phase = "active"
               /\ c.work.task \in {"BeginPersist", "CloseRollback"}
            \/ c.rec.phase \in Endings /\ c.conn # "open"
  BY DEF RecordInv, NotYetStored
<1>10. c.work.task = "BeginPersist" =>
          \A e \in Drives :
             Awaits(e, "persist") /\ flight[e].took /\ flight[e].ev.id = c.work.id =>
                store.phase # "absent"
  BY DEF RecordInv, BegunFirst
<1>11. \A e \in Drives : Awaits(e, "open") =>
          e = "client" /\ store.phase = "absent" /\ c.rec.phase = "absent"
  BY DEF RecordInv, OpensOnce
<1>12. \A e \in Drives \ {"client"} :
          /\ flight[e].stage = "ready" => flight[e].ev.cmd.kind \in {"none", "query"}
          /\ flight[e].stage = "effect" /\ c.work.task \in BeginTasks =>
                flight[e].ev.id # c.work.id
          /\ flight[e].stage = "effect" /\ flight[e].ev.type \in UsesOpen =>
                store.phase # "absent"
  BY DEF RecordInv, BeginsOnClient
<1>13. /\ c.conn = "open" =>
             \A e \in Drives : /\ ~Awaits(e, "rollback") /\ ~Awaits(e, "commit")
                               /\ ~Awaits(e, "open")
       /\ c.work.task = "CommitSend" =>
             \A e \in Drives : /\ ~Awaits(e, "rollback")
                               /\ Awaits(e, "commit") => /\ flight[e].ev.id = c.work.id
                                                         /\ flight[e].had => link
  BY DEF RecordInv, ClosesOnce
<1>14. c.rec.phase = "committed" => sent # NotSent /\ db = "committed"
  BY DEF RecordInv, CommittedTruly
<1>15. Orderly(c, h.snap) BY DEF RecordInv, OrderlyNow, Fed
<1>16. Tombstone.phase = "discarded" BY DEF Tombstone, NoRec
<1> HIDE DEF c
<1>17. MemoryFollows'
  <2>1. o.m.rec.phase # "unreadable"
    BY MachineFields DEF Outputs, Records, Phases, HasDeadline, Terminal
  <2>2. CASE store' = store BY <1>2, <1>5, <2>2 DEF MemoryFollows
  <2>3. CASE store' = o.m.rec BY <1>2, <2>1, <2>3 DEF MemoryFollows, Reach
  <2> QED BY <1>4, <2>2, <2>3
<1>18. NotYetStored'
  <2> SUFFICES ASSUME store'.phase = "absent"
               PROVE  /\ store' = NoRec
                      /\ \/ o.m.rec.phase = "absent"
                         \/ /\ o.m.rec.phase = "active"
                            /\ o.m.work.task \in {"BeginPersist", "CloseRollback"}
                         \/ o.m.rec.phase \in Endings /\ o.m.conn # "open"
    BY <1>2 DEF NotYetStored
  <2>1. store' = store /\ store.phase = "absent" /\ store = NoRec BY <1>4, <1>9
  <2>2. CASE c.rec.phase = "absent"
    BY <1>1, <2>1, <2>2 DEF RecordSteps, Leads, Terminal
  <2>3. CASE /\ c.rec.phase = "active"
             /\ c.work.task \in {"BeginPersist", "CloseRollback"}
    BY <1>1, <1>3, <2>1, <2>3 DEF StartSteps, AnsweredAs
  <2>4. CASE c.rec.phase \in Endings /\ c.conn # "open"
    <3>1. o.m.rec = c.rec BY <1>1, <2>4 DEF RecordSteps, Endings, Terminal
    <3>2. o.m.conn # "open"
      BY <1>1, <1>3, <2>4 DEF ConnSteps, AnsweredAs, Endings
    <3> QED BY <2>1, <2>4, <3>1, <3>2
  <2> QED BY <1>9, <2>1, <2>2, <2>3, <2>4
<1>19. BegunFirst'
  <2> SUFFICES ASSUME o.m.work.task = "BeginPersist", NEW e \in Drives,
                      Awaits(e, "persist")', flight'[e].took,
                      flight'[e].ev.id = o.m.work.id
               PROVE  store'.phase # "absent"
    BY <1>2 DEF BegunFirst
  <2>1. CASE e = d
    <3>1. type = "persist" /\ took BY <1>6, <1>7, <2>1, EffectNames DEF Awaits
    <3> QED BY <1>4, <3>1 DEF Fed
  <2>2. CASE e # d
    <3>1. Awaits(e, "persist") /\ flight'[e] = flight[e] BY <1>6, <1>7, <2>2, EffectNames
    <3>2. o.m.work = c.work BY <1>1, <1>6, <3>1 DEF WorkSteps, HasWork
    <3>3. store.phase # "absent" BY <1>10, <3>1, <3>2
    <3> QED BY <1>4, <3>3
  <2> QED BY <2>1, <2>2
<1>20. OpensOnce'
  <2> SUFFICES ASSUME NEW e \in Drives, Awaits(e, "open")'
               PROVE  e = "client" /\ store'.phase = "absent" /\ o.m.rec.phase = "absent"
    BY <1>2 DEF OpensOnce
  <2>1. CASE e = d
    <3>1. type = "open" BY <1>7, <2>1, EffectNames
    <3>2. /\ d = "client" /\ c.rec.phase = "absent" /\ o.m.rec.phase = "absent"
      BY <1>1, <1>3, <3>1 DEF ConnSteps, AnsweredAs, BeginTasks
    <3>3. store.phase = "absent"
      BY <1>8, <1>16, <3>2, RecordPhases, ReachFacts
         DEF Terminal, Unended, HasDeadline, Phases, Endings
    <3> QED BY <1>4, <2>1, <3>1, <3>2, <3>3
  <2>2. CASE e # d
    <3>1. e = "client" /\ store.phase = "absent" /\ c.rec.phase = "absent"
      BY <1>7, <1>11, <2>2, EffectNames
    <3>2. o.m.rec.phase = "absent"
      BY <1>1, <1>3, <2>2, <3>1 DEF RecordSteps, Leads, Terminal, AnsweredAs, BeginTasks
    <3> QED BY <1>4, <3>1, <3>2
  <2> QED BY <2>1, <2>2
<1>21. ReadyEvents' BY <1>6 DEF RecordInv, ReadyEvents
<1>22. OrderlyNow' BY <1>1, <1>2 DEF OrderlyNow, Fed
<1>23. CommittedTruly'
  <2> SUFFICES ASSUME o.m.rec.phase = "committed"
               PROVE  sent' # NotSent /\ db' = "committed"
    BY <1>2 DEF CommittedTruly
  <2>1. CASE c.rec.phase = "committed" BY <1>11, <1>14, <2>1 DEF Happened
  <2>2. CASE c.rec.phase # "committed"
    <3>1. AnsweredAs(c, ev, "CommitSend", "ok") BY <1>1, <2>2 DEF RecordSteps
    <3>2. /\ Awaits(d, "commit") /\ ev.type = "commit" /\ ev.result = "ok"
          /\ c.work.task = "CommitSend"
      BY <1>3, <3>1, AwaitedEffects DEF AnsweredAs, Answered
    <3>3. flight[d].took /\ db = "committed" BY <1>13, <3>2 DEF Happened
    <3>4. sent # NotSent BY <3>2, <3>3 DEF RecordInv, SentFor
    <3>5. ~Awaits(d, "open") BY <3>2 DEF Awaits
    <3> QED BY <3>3, <3>4, <3>5 DEF Happened
  <2> QED BY <2>1, <2>2
<1>24. BeginsOnClient'
  <2> SUFFICES ASSUME NEW e \in Drives \ {"client"}
        PROVE  /\ flight'[e].stage = "ready" => flight'[e].ev.cmd.kind \in {"none", "query"}
               /\ flight'[e].stage = "effect" /\ o.m.work.task \in BeginTasks =>
                     flight'[e].ev.id # o.m.work.id
               /\ flight'[e].stage = "effect" /\ flight'[e].ev.type \in UsesOpen =>
                     store'.phase # "absent"
    BY <1>2 DEF BeginsOnClient
  <2>1. CASE e # d
    <3>1. flight'[e] = flight[e] BY <1>6, <2>1
    <3>2. o.m.work.task \in BeginTasks => o.m.work = c.work \/ o.m.work.id = h.id
      BY <1>1 DEF WorkSteps, HasWork, BeginTasks
    <3> QED BY <1>4, <1>6, <1>12, <3>1, <3>2
  <2>2. CASE e = d
    <3>1. flight'[e].stage # "ready" BY <1>6, <2>2
    <3>2. ASSUME flight'[e].stage = "effect", o.m.work.task \in BeginTasks
          PROVE  flight'[e].ev.id # o.m.work.id
      <4>1. flight'[e].ev.id = h.id BY <1>6, <2>2, <3>2
      <4>2. ~(ev.type = "forwarded" /\ ev.cmd.kind = "begin")
        BY <1>12, <2>2 DEF Heard, EffectTypes
      <4>3. ~(Answered(c, ev) /\ c.work.task \in BeginTasks) BY <1>3, <2>2
      <4>4. o.m.work = c.work BY <1>1, <3>2, <4>2, <4>3 DEF WorkSteps
      <4> QED BY <1>6, <4>1, <4>4
    <3>3. ASSUME flight'[e].stage = "effect", flight'[e].ev.type \in UsesOpen,
                 store'.phase = "absent"
          PROVE  FALSE
      <4>1. type \in UsesOpen /\ c.conn = "open"
        BY <1>1, <1>6, <2>2, <3>3 DEF ConnSteps, UsesOpen
      <4>2. store.phase = "absent" BY <1>4, <3>3
      <4>3. c.rec.phase = "active" /\ c.work.task \in {"BeginPersist", "CloseRollback"}
        BY <1>9, <1>15, <4>1, <4>2 DEF Orderly, Holds, HasDeadline
      <4>4. c.work.task = "BeginPersist" BY <1>15, <4>1, <4>3 DEF Orderly, Fits, At
      <4>5. Answered(c, ev) BY <1>1, <4>1, <4>3, <4>4 DEF StartSteps, UsesOpen
      <4> QED BY <1>3, <2>2, <4>4, <4>5 DEF BeginTasks
    <3> QED BY <3>1, <3>2, <3>3
  <2> QED BY <2>1, <2>2
<1>25. ClosesOnce'
  <2>1. ASSUME o.m.conn = "open", NEW e \in Drives
        PROVE  ~Awaits(e, "rollback")' /\ ~Awaits(e, "commit")' /\ ~Awaits(e, "open")'
    <3>1. CASE e = d BY <1>1, <1>7, <2>1, <3>1, EffectNames DEF ConnSteps
    <3>2. CASE e # d /\ c.conn = "open" BY <1>7, <1>13, <3>2, EffectNames
    <3>3. CASE e # d /\ c.conn # "open"
      <4>1. AnsweredAs(c, ev, "BeginOpen", "ok") BY <1>1, <2>1, <3>3 DEF ConnSteps
      <4>2. d = "client" /\ store.phase = "absent"
        BY <1>3, <4>1 DEF AnsweredAs, BeginTasks
      <4>3. ~Awaits(e, "commit") BY <4>2, AbsentUnsent
      <4>4. ~Awaits(e, "open") BY <1>11, <3>3, <4>2
      <4>5. ~Awaits(e, "rollback") BY <1>12, <3>3, <4>2 DEF Awaits, UsesOpen
      <4> QED BY <1>7, <3>3, <4>3, <4>4, <4>5, EffectNames
    <3> QED BY <3>1, <3>2, <3>3
  <2>2. ASSUME o.m.work.task = "CommitSend", NEW e \in Drives
        PROVE  /\ ~Awaits(e, "rollback")'
               /\ Awaits(e, "commit")' => /\ flight'[e].ev.id = o.m.work.id
                                          /\ flight'[e].had => link'
    <3>1. CASE type = "commit"
      <4>1. c.conn = "open" BY <1>1, <3>1 DEF ConnSteps
      <4>2. e # d => ~Awaits(e, "rollback")' /\ ~Awaits(e, "commit")'
        BY <1>7, <1>13, <4>1, EffectNames
      <4>3. ~Awaits(d, "rollback")' BY <1>7, <3>1, EffectNames
      <4>4. o.m.work.id = h.id
        <5>1. c.work.task # "CommitSend" BY <1>15, <4>1 DEF Orderly, Fits, At
        <5> QED BY <1>1, <2>2, <5>1 DEF WorkSteps
      <4>5. flight'[d].ev.id = h.id /\ flight'[d].had = conn BY <1>6, <3>1
      <4>6. conn => link' BY <2>2, <3>1 DEF Fed, HasWork
      <4> QED BY <4>2, <4>3, <4>4, <4>5, <4>6
    <3>2. CASE type # "commit"
      <4>1. o.m.work = c.work /\ c.work.task = "CommitSend" BY <1>1, <2>2, <3>2 DEF WorkSteps
      <4>2. ~Awaits(d, "rollback")' /\ ~Awaits(d, "commit")'
        BY <1>1, <1>7, <2>2, <3>2, EffectNames DEF WorkSteps
      <4>3. CASE e = d BY <4>2, <4>3
      <4>4. CASE e # d
        <5>1. ~Awaits(e, "rollback")' BY <1>7, <1>13, <4>1, <4>4, EffectNames
        <5>2. ASSUME Awaits(e, "commit")'
              PROVE  /\ flight'[e].ev.id = o.m.work.id
                     /\ flight'[e].had => link'
          <6>1. Awaits(e, "commit") /\ flight'[e] = flight[e]
            BY <1>6, <1>7, <4>4, <5>2, EffectNames
          <6>2. flight[e].ev.id = c.work.id /\ (flight[e].had => link)
            BY <1>13, <4>1, <6>1
          <6>3. ~Awaits(d, "commit") BY <4>4, <6>1 DEF CommitProtocol, SentOnce
          <6>4. ~Awaits(d, "open")
            BY <1>11, <1>15, <4>1 DEF Orderly, Fits, At
          <6>5. conn = link BY <1>13, <4>1, <6>3, <6>4 DEF Happened
          <6>6. type # "open"
            BY <1>1, <4>1 DEF ConnSteps, AnsweredAs
          <6>7. link => link' BY <2>2, <6>5, <6>6 DEF Fed, HasWork
          <6> QED BY <4>1, <6>1, <6>2, <6>7
        <5> QED BY <5>1, <5>2
      <4> QED BY <4>3, <4>4
    <3> QED BY <3>1, <3>2
  <2> QED BY <1>2, <2>1, <2>2 DEF ClosesOnce
<1>26. SentFor'
  <2> SUFFICES ASSUME NEW e \in Drives, Awaits(e, "commit")'
               PROVE  /\ flight'[e].arg # 0 /\ (flight'[e].took => sent' # NotSent)
                      /\ store'.phase \notin {"unreadable", "discarded"}
    BY DEF SentFor
  <2>1. CASE e = d
    <3>1. type = "commit" BY <1>7, <2>1, EffectNames
    <3>2. flight'[d].arg # 0 /\ ~flight'[d].took BY <1>1, <1>6, <3>1 DEF WorkSteps
    <3>3. /\ loaded /\ m.work.task = "CommitPersist" /\ m.work.id = ev.id
          /\ ev.type = "persist" /\ ev.result = "ok"
      BY <3>1, RunCommits DEF Plain, Apart, CommitAnnounced
    <3>4. Awaits(d, "persist") /\ flight[d].took /\ flight[d].ev.id = m.work.id
      BY <3>3 DEF Heard, EffectTypes
    <3>5. store.phase = "committing"
      BY <3>3, <3>4 DEF CommitProtocol, AnnouncedFirst
    <3> QED BY <1>4, <2>1, <3>1, <3>2, <3>5
  <2>2. CASE e # d
    <3>1. Awaits(e, "commit") /\ flight'[e] = flight[e] BY <1>6, <1>7, <2>2, EffectNames
    <3>2. /\ flight[e].arg # 0 /\ (flight[e].took => sent # NotSent)
          /\ store.phase \notin {"unreadable", "discarded"}
      BY <3>1 DEF RecordInv, SentFor
    <3>3. store.phase # "absent" BY <3>1, AbsentUnsent
    <3>4. sent' = sent BY <1>11, <3>3 DEF Happened
    <3>5. store.phase \in Sealing
      BY <3>1, <3>2 DEF CommitProtocol, SealedByCommit, CommitPossible
    <3>6. store'.phase \notin {"unreadable", "discarded"}
      <4>1. CASE store.phase \in Terminal BY <1>4, <3>2, <4>1
      <4>2. CASE store.phase = "committing" BY <1>4, <4>2, ReachFacts DEF Endings
      <4> QED BY <3>5, <4>1, <4>2 DEF Sealing, Terminal
    <3> QED BY <3>1, <3>2, <3>4, <3>6
  <2> QED BY <2>1, <2>2
<1> QED BY <1>17, <1>18, <1>19, <1>20, <1>21, <1>22, <1>23, <1>24, <1>25, <1>26
        DEF RecordInv

\* So every step of a drive keeps the invariant.
LEMMA FeedInv ==
    ASSUME FedTypes, CommitProtocol, RecordInv, NEW d \in Drives, NEW ev \in Events,
           NEW conn, NEW fails, Feed(d, ev, conn, fails), Heard(d, ev),
           Happened(d, ev, conn)
    PROVE  RecordInv'
<1>1. PICK h \in HostFacts, took \in BOOLEAN, o \in Outputs :
        o = Run(h, ev) /\ Moved(h, ev, o) /\ Fed(d, conn, h, took, o)
  BY FeedStep DEF RecordInv
<1>2. CASE ~loaded' BY <1>1, <1>2, DropInv
<1>3. CASE loaded' /\ ~loaded /\ store = Unreadable BY <1>1, <1>3, DiscardInv
<1>4. CASE loaded' /\ ~(~loaded /\ store = Unreadable) BY <1>1, <1>4, LiveInv
<1> QED BY <1>2, <1>3, <1>4

(***************************************************************************)
(* Every step of the owner                                                 *)
(***************************************************************************)
\* Whatever a drive does next, it steps an event it heard.
LEMMA ProgressFeeds ==
    ASSUME FedTypes, CommitProtocol, RecordInv, NEW d \in Drives, Progress(d)
    PROVE  \E ev \in Events, conn \in BOOLEAN, fails \in BOOLEAN :
              /\ Feed(d, ev, conn, fails) /\ Heard(d, ev)
              /\ Happened(d, ev, conn) /\ Progressed(d, ev)
<1> USE DEF progress
<1>1. link \in BOOLEAN /\ flight[d] \in Flights BY DEF FedTypes
<1>2. flight[d].ev \in Events /\ flight[d].took \in BOOLEAN BY <1>1 DEF Flights
<1>3. flight[d].ev.result = "none" BY DEF CommitProtocol, EventsUnanswered
<1>4. \A result \in Results :
         /\ OutcomeOf(d, result) \in Events
         /\ OutcomeOf(d, result).type = flight[d].ev.type
         /\ OutcomeOf(d, result).id = flight[d].ev.id
         /\ OutcomeOf(d, result).result = result
  BY <1>2 DEF OutcomeOf, Events
<1>5. {"ok", "failed", "refused", "denied", "allow", "deny", "unknown",
       "not_committed"} \subseteq Results
  BY DEF Results
<1>6. ASSUME NEW result \in Results, NEW conn \in BOOLEAN, NEW fails \in BOOLEAN,
             NEW type \in EffectTypes, Awaits(d, type),
             Feed(d, OutcomeOf(d, result), conn, fails),
             type = "persist" /\ result = "ok" => flight[d].took,
             Happened(d, OutcomeOf(d, result), conn), Progressed(d, OutcomeOf(d, result))
      PROVE  \E ev \in Events, conn1 \in BOOLEAN, fails1 \in BOOLEAN :
                /\ Feed(d, ev, conn1, fails1) /\ Heard(d, ev)
                /\ Happened(d, ev, conn1) /\ Progressed(d, ev)
  <2>1. Heard(d, OutcomeOf(d, result)) BY <1>4, <1>6 DEF Heard, Awaits
  <2> QED BY <1>4, <1>6, <2>1
<1>7. CASE Step(d)
  <2>1. /\ Feed(d, flight[d].ev, link, FALSE) /\ flight[d].stage = "ready"
        /\ sent' = sent /\ db' = db /\ SameProgress
    BY <1>7 DEF Step, SameProgress
  <2>2. Heard(d, flight[d].ev) /\ flight[d].ev.type \notin EffectTypes
    BY <2>1 DEF Heard, RecordInv, ReadyEvents
  <2>3. Happened(d, flight[d].ev, link) BY <1>3, <2>1 DEF Happened
  <2>4. Progressed(d, flight[d].ev) BY <2>1, <2>2, EffectNames DEF Progressed
  <2> QED BY <1>1, <1>2, <2>1, <2>2, <2>3, <2>4
<1>8. CASE BindingChecked(d) \/ Executed(d) \/ ValidatorReplied(d)
  <2>1. PICK result \in Results, type \in {"checkBinding", "execute", "callValidator"} :
          /\ Awaits(d, type) /\ Feed(d, OutcomeOf(d, result), link, FALSE)
          /\ sent' = sent /\ db' = db
          /\ \/ /\ type = "checkBinding"
                /\ applied' = applied /\ changed' = changed /\ allowedBy' = allowedBy
                /\ vetted' = (vetted \/ (/\ result = "ok"
                                         /\ m.work.task = "CommitBinding"
                                         /\ m.work.id = flight[d].ev.id))
             \/ /\ type = "execute" /\ allowedBy' = allowedBy /\ vetted' = vetted
                /\ \E ran \in BOOLEAN : Ran(d, ran) /\ (result # "failed" => ran)
             \/ /\ type = "callValidator"
                /\ applied' = applied /\ changed' = changed /\ vetted' = FALSE
                /\ allowedBy' = IF result = "allow" THEN allowedBy \cup {flight[d].arg}
                                ELSE allowedBy
    <3>1. CASE BindingChecked(d)
      <4>1. PICK result \in {"ok", "denied", "failed"} :
              /\ Feed(d, OutcomeOf(d, result), link, FALSE)
              /\ vetted' = (vetted \/ (/\ result = "ok"
                                       /\ m.work.task = "CommitBinding"
                                       /\ m.work.id = flight[d].ev.id))
        BY <3>1 DEF BindingChecked
      <4>2. Awaits(d, "checkBinding") /\ UNCHANGED <<db, sent, applied, changed, allowedBy>>
        BY <3>1 DEF BindingChecked
      <4> QED BY <1>5, <4>1, <4>2
    <3>2. CASE Executed(d)
      <4>1. PICK result \in {"ok", "refused", "failed"}, ran \in BOOLEAN :
              /\ result # "failed" => ran
              /\ Ran(d, ran)
              /\ Feed(d, OutcomeOf(d, result), link, FALSE)
        BY <3>2 DEF Executed
      <4>2. Awaits(d, "execute") /\ UNCHANGED <<db, sent, allowedBy, vetted>>
        BY <3>2 DEF Executed
      <4> QED BY <1>5, <4>1, <4>2
    <3>3. CASE ValidatorReplied(d)
      <4>1. PICK result \in {"allow", "deny"} :
              /\ Feed(d, OutcomeOf(d, result), link, FALSE)
              /\ allowedBy' = IF result = "allow" THEN allowedBy \cup {flight[d].arg}
                              ELSE allowedBy
        BY <3>3 DEF ValidatorReplied
      <4>2. /\ Awaits(d, "callValidator") /\ vetted' = FALSE
            /\ UNCHANGED <<db, sent, applied, changed>>
        BY <3>3 DEF ValidatorReplied
      <4> QED BY <1>5, <4>1, <4>2
    <3> QED BY <1>8, <3>1, <3>2, <3>3
  <2>2. Happened(d, OutcomeOf(d, result), link) BY <1>4, <2>1 DEF Happened, Awaits
  <2>3. Progressed(d, OutcomeOf(d, result)) BY <1>4, <2>1 DEF Progressed
  <2> QED BY <1>1, <1>6, <2>1, <2>2, <2>3, EffectNames
<1>9. CASE Opened(d)
  <2>1. Awaits(d, "open") BY <1>9 DEF Opened
  <2>2. CASE /\ Feed(d, OutcomeOf(d, "ok"), TRUE, FALSE)
             /\ db' = "open" /\ sent' = NotSent /\ applied' = <<>>
             /\ changed' = FALSE /\ allowedBy' = {} /\ vetted' = FALSE
    <3>1. Happened(d, OutcomeOf(d, "ok"), TRUE)
      BY <1>4, <1>5, <2>1, <2>2 DEF Happened, Awaits
    <3>2. Progressed(d, OutcomeOf(d, "ok")) BY <1>4, <1>5, <2>1, <2>2 DEF Progressed
    <3> QED BY <1>5, <1>6, <2>1, <2>2, <3>1, <3>2, EffectNames
  <2>3. CASE /\ Feed(d, OutcomeOf(d, "failed"), FALSE, FALSE)
             /\ db' = db /\ sent' = sent /\ SameProgress
    <3>1. Happened(d, OutcomeOf(d, "failed"), FALSE)
      BY <1>4, <1>5, <2>1, <2>3 DEF Happened, Awaits
    <3>2. Progressed(d, OutcomeOf(d, "failed"))
      BY <1>4, <1>5, <2>1, <2>3 DEF Progressed, Awaits
    <3> QED BY <1>5, <1>6, <2>1, <2>3, <3>1, <3>2, EffectNames
  <2> QED BY <1>9, <2>2, <2>3 DEF Opened, SameProgress
<1>10. CASE Recorded(d)
  <2>1. PICK type \in {"persist", "setTimer"} : Awaits(d, type)
    BY <1>10 DEF Recorded
  <2>2. \A result \in Results : Happened(d, OutcomeOf(d, result), link)
    BY <1>4, <1>10, <2>1 DEF Recorded, Happened, Awaits
  <2>5. \A result \in Results : Progressed(d, OutcomeOf(d, result))
    BY <1>4, <1>10, <2>1 DEF Recorded, Progressed, SameProgress, Awaits
  <2>3. CASE flight[d].took /\ Feed(d, OutcomeOf(d, "ok"), link, FALSE)
    BY <1>1, <1>5, <1>6, <2>1, <2>2, <2>3, <2>5, EffectNames
  <2>4. CASE Feed(d, OutcomeOf(d, "failed"), link, flight[d].took)
    BY <1>1, <1>2, <1>5, <1>6, <2>1, <2>2, <2>4, <2>5, EffectNames
  <2> QED BY <1>10, <2>3, <2>4 DEF Recorded
<1>11. CASE CommitReturned(d)
  <2>1. Awaits(d, "commit") /\ sent' = sent /\ db' = db /\ SameProgress
    BY <1>11 DEF CommitReturned, SameProgress
  <2>2. PICK result \in {"ok", "not_committed", "unknown"} :
          /\ Feed(d, OutcomeOf(d, result), FALSE, FALSE)
          /\ result = "ok" => \/ flight[d].took /\ db = "committed"
                              \/ flight[d].had /\ ~link
    BY <1>11 DEF CommitReturned
  <2>3. Happened(d, OutcomeOf(d, result), FALSE)
    BY <1>4, <1>5, <2>1, <2>2 DEF Happened
  <2>4. Progressed(d, OutcomeOf(d, result)) BY <1>4, <1>5, <2>1 DEF Progressed, Awaits
  <2> QED BY <1>5, <1>6, <2>1, <2>2, <2>3, <2>4, EffectNames
<1>12. CASE RolledBack(d)
  <2>1. /\ Awaits(d, "rollback") /\ sent' = sent /\ SameProgress
        /\ db' = db \/ (db = "open" /\ db' = "aborted")
    BY <1>12 DEF RolledBack, SameProgress
  <2>2. PICK result \in {"ok", "failed"} : Feed(d, OutcomeOf(d, result), FALSE, FALSE)
    BY <1>12 DEF RolledBack
  <2>3. Happened(d, OutcomeOf(d, result), FALSE)
    BY <1>4, <1>5, <2>1, <2>2 DEF Happened, Awaits
  <2>4. Progressed(d, OutcomeOf(d, result)) BY <1>4, <1>5, <2>1 DEF Progressed, Awaits
  <2> QED BY <1>5, <1>6, <2>1, <2>2, <2>3, <2>4, EffectNames
<1> QED BY <1>7, <1>8, <1>9, <1>10, <1>11, <1>12 DEF Progress

\* The events drives start with.
LEMMA StartEvents ==
    /\ Idling.stage = "idle"
    /\ \A cmd, dying : /\ Ready(ForwardedEvent(cmd), dying).stage = "ready"
                       /\ Ready(ForwardedEvent(cmd), dying).ev.type \notin EffectTypes
                       /\ Ready(ForwardedEvent(cmd), dying).ev.cmd = cmd
    /\ \A dying : /\ Ready(TimerEvent, dying).stage = "ready"
                  /\ Ready(TimerEvent, dying).ev.type \notin EffectTypes
                  /\ Ready(TimerEvent, dying).ev.cmd.kind = "none"
                  /\ Ready(NoEvent, dying).stage = "ready"
                  /\ Ready(NoEvent, dying).ev.type \notin EffectTypes
                  /\ Ready(NoEvent, dying).ev.cmd.kind = "none"
BY DEF Idling, Ready, ForwardedEvent, TimerEvent, NoEvent, NoCmd, EffectTypes

\* A drive that stops, or starts with an event of its own, stands.
LEMMA StartStands ==
    ASSUME FedTypes, NEW d \in Drives, NEW f, flight' = [flight EXCEPT ![d] = f],
           \/ f.stage = "idle"
           \/ /\ f.stage = "ready" /\ f.ev.type \notin EffectTypes
              /\ d # "client" => f.ev.cmd.kind \in {"none", "query"}
    PROVE  \A e \in Drives : Stands(e)
<1>1. flight'[d] = f /\ \A e \in Drives \ {d} : flight'[e] = flight[e] BY DEF FedTypes
<1>2. Stands(d) BY <1>1 DEF Stands
<1>3. \A e \in Drives \ {d} : Stands(e) BY <1>1 DEF Stands
<1> QED BY <1>2, <1>3

\* Handing COMMIT to the database keeps the invariant.
LEMMA SendInv ==
    ASSUME FedTypes, CommitProtocol, RecordInv, NEW d \in Drives, SendCommit(d)
    PROVE  RecordInv'
<1> USE DEF memory, world, bounds, progress, answers
<1>1. /\ Awaits(d, "commit") /\ flight' = [flight EXCEPT ![d].took = TRUE]
      /\ sent' = [seq |-> flight[d].arg, auth |-> store.auth]
      /\ m' = m /\ loaded' = loaded /\ store' = store /\ link' = link
      /\ runtime' = runtime /\ db' = db
  BY DEF SendCommit
<1>2. flight \in [Drives -> Flights] BY DEF FedTypes
<1>3. /\ flight'[d].stage = flight[d].stage /\ flight'[d].ev = flight[d].ev
      /\ flight'[d].had = flight[d].had /\ flight'[d].arg = flight[d].arg
      /\ \A e \in Drives \ {d} : flight'[e] = flight[e]
  BY <1>1, <1>2 DEF Flights
<1>4. \A e \in Drives, type \in EffectTypes : Awaits(e, type)' <=> Awaits(e, type)
  BY <1>3 DEF Awaits
<1>5. sent' # NotSent
  <2>1. flight[d].arg # 0 BY <1>1 DEF RecordInv, SentFor
  <2> QED BY <1>1, <2>1 DEF NotSent
<1>6. ~Awaits(d, "persist") BY <1>1 DEF Awaits
<1>7. Current' = Current BY <1>1 DEF Current
<1> HIDE DEF Current
<1>8. MemoryFollows' BY <1>1, <1>7 DEF RecordInv, MemoryFollows
<1>9. NotYetStored' BY <1>1, <1>7 DEF RecordInv, NotYetStored
<1>10. BegunFirst'
  BY <1>1, <1>3, <1>4, <1>6, <1>7, EffectNames DEF RecordInv, BegunFirst
<1>11. OpensOnce' BY <1>1, <1>4, <1>7, EffectNames DEF RecordInv, OpensOnce
<1>12. BeginsOnClient' BY <1>1, <1>3, <1>7 DEF RecordInv, BeginsOnClient
<1>13. ClosesOnce' BY <1>1, <1>3, <1>4, <1>7, EffectNames DEF RecordInv, ClosesOnce
<1>14. SentFor' BY <1>1, <1>3, <1>4, <1>5, EffectNames DEF RecordInv, SentFor
<1>15. CommittedTruly' BY <1>1, <1>5, <1>7 DEF RecordInv, CommittedTruly
<1>16. OrderlyNow' BY <1>1, <1>7 DEF RecordInv, OrderlyNow
<1>17. ReadyEvents' BY <1>3 DEF RecordInv, ReadyEvents
<1> QED BY <1>8, <1>9, <1>10, <1>11, <1>12, <1>13, <1>14, <1>15, <1>16, <1>17
        DEF RecordInv

\* So does the loss of the owner, whether its successor reads the record or not.
LEMMA CrashInv ==
    ASSUME FedTypes, CommitProtocol, RecordInv, Crash
    PROVE  RecordInv'
<1> USE DEF memory, world, bounds, progress, answers
<1>1. /\ m' = Fresh(NoRec) /\ loaded' = FALSE /\ sent' = sent /\ db' = db
      /\ \A e \in Drives : flight'[e] = Idling
      /\ store' = store \/ store' = Unreadable
  BY DEF Crash
<1>2. \A e \in Drives : Stands(e) BY <1>1, StartEvents DEF Stands
<1>3. CASE store' = store BY <1>1, <1>2, <1>3, DroppedInv
<1>4. CASE store' = Unreadable
  <2> DEFINE f == Fresh(Unreadable)
  <2>1. Current' = f BY <1>1, <1>4 DEF Current
  <2>2. /\ f.rec = Unreadable /\ f.conn = "none" /\ f.work.task = "none"
        /\ Orderly(f, runtime')
    BY FreshOrderly DEF NoWork
  <2>3. Unreadable.phase = "unreadable" BY DEF Unreadable, NoRec
  <2> HIDE DEF f
  <2>4. \A e \in Drives : /\ flight'[e].stage = "idle"
                          /\ \A type \in EffectTypes : ~Awaits(e, type)'
    BY <1>1, StartEvents DEF Awaits
  <2>5. MemoryFollows'
    BY <1>1, <1>4, <2>3 DEF MemoryFollows, Unended, HasDeadline, Terminal
  <2>6. NotYetStored' /\ BegunFirst' BY <1>4, <2>3 DEF NotYetStored, BegunFirst
  <2>7. OpensOnce' /\ SentFor' BY <2>4, EffectNames DEF OpensOnce, SentFor
  <2>8. BeginsOnClient' /\ ReadyEvents' BY <2>4 DEF BeginsOnClient, ReadyEvents
  <2>9. ClosesOnce' BY <2>4, EffectNames DEF ClosesOnce
  <2>10. CommittedTruly' BY <2>1, <2>2, <2>3 DEF CommittedTruly
  <2>11. OrderlyNow' BY <1>1, <2>1, <2>2 DEF OrderlyNow
  <2> QED BY <2>5, <2>6, <2>7, <2>8, <2>9, <2>10, <2>11 DEF RecordInv
<1> QED BY <1>1, <1>3, <1>4

\* An engine fault keeps the invariant: the connection of a COMMIT that is
\* still awaited stays.
LEMMA FaultInv ==
    ASSUME FedTypes, CommitProtocol, RecordInv, NEW d \in Drives, EngineFault(d)
    PROVE  RecordInv'
<1> USE DEF memory, world, bounds, progress, answers
<1>1. flight \in [Drives -> Flights] BY DEF FedTypes
<1>2. /\ store' = store /\ sent' = sent /\ db' = db /\ runtime' = runtime
      /\ \/ /\ m' = Fresh(NoRec) /\ loaded' = FALSE
            /\ flight' = [flight EXCEPT ![d] = Idling]
         \/ /\ m' = m /\ loaded' = loaded
            /\ flight' = [flight EXCEPT ![d] = Ready(NoEvent, TRUE)]
            /\ link' = (link /\ ~Awaits(d, "commit") /\ ~Awaits(d, "rollback"))
  BY DEF EngineFault
<1>3. \A e \in Drives : Stands(e)
  <2>1. CASE flight' = [flight EXCEPT ![d] = Idling] BY <2>1, StartEvents, StartStands
  <2>2. CASE flight' = [flight EXCEPT ![d] = Ready(NoEvent, TRUE)]
    <3>1. Ready(NoEvent, TRUE).stage = "ready" /\ Ready(NoEvent, TRUE).ev.type \notin EffectTypes
          /\ Ready(NoEvent, TRUE).ev.cmd.kind = "none"
      BY StartEvents
    <3> QED BY <2>2, <3>1, StartStands
  <2> QED BY <1>2, <2>1, <2>2
<1>4. CASE m' = Fresh(NoRec) /\ loaded' = FALSE BY <1>2, <1>3, <1>4, DroppedInv
<1>5. CASE /\ m' = m /\ loaded' = loaded
           /\ flight' = [flight EXCEPT ![d] = Ready(NoEvent, TRUE)]
           /\ link' = (link /\ ~Awaits(d, "commit") /\ ~Awaits(d, "rollback"))
  <2>1. Awaits(d, "rollback") => Current.work.task # "CommitSend"
    BY DEF RecordInv, ClosesOnce
  <2>2. Awaits(d, "commit") => \A e \in Drives : ~Awaits(e, "commit")'
    <3> SUFFICES ASSUME Awaits(d, "commit"), NEW e \in Drives PROVE ~Awaits(e, "commit")'
      OBVIOUS
    <3>1. CASE e = d BY <1>1, <1>5, <3>1, StartEvents DEF Awaits
    <3>2. CASE e # d
      <4>1. ~Awaits(e, "commit") BY <3>2 DEF CommitProtocol, SentOnce
      <4> QED BY <1>1, <1>5, <3>2, <4>1 DEF Awaits
    <3> QED BY <3>1, <3>2
  <2>3. ~Awaits(d, "commit") /\ ~Awaits(d, "rollback") => link' = link
    BY <1>5 DEF FedTypes
  <2>4. \/ link' = link
        \/ Current.work.task # "CommitSend"
        \/ \A e \in Drives : ~Awaits(e, "commit")'
    BY <2>1, <2>2, <2>3
  <2> HIDE DEF Current
  <2> QED BY <1>2, <1>3, <1>5, <2>4, SameInv
<1> QED BY <1>2, <1>4, <1>5

\* The owner's record, its memory and what its drives await agree through
\* every event, outcome, fault and loss: what memory holds may follow what the
\* store holds, only the client's drive opens a transaction and only for a name
\* without a record, and an open connection is not being closed.
THEOREM RecordInvariant == Spec => []RecordInv
<1>1. Init => RecordInv
  <2> SUFFICES ASSUME Init PROVE RecordInv OBVIOUS
  <2> DEFINE f == Fresh(NoRec)
  <2>1. Current = f /\ store = NoRec /\ m = f /\ ~loaded BY DEF Init, Current
  <2>2. f.rec = NoRec /\ f.conn = "none" /\ f.work.task = "none" /\ Orderly(f, runtime)
    BY FreshOrderly DEF NoWork
  <2>3. NoRec.phase = "absent" BY DEF NoRec
  <2> HIDE DEF f
  <2>4. \A e \in Drives : /\ flight[e].stage = "idle"
                          /\ \A type \in EffectTypes : ~Awaits(e, type)
    BY StartEvents DEF Init, Awaits
  <2>5. MemoryFollows BY <2>1, <2>2, <2>3 DEF MemoryFollows, Reach, Terminal
  <2>6. NotYetStored /\ BegunFirst BY <2>1, <2>2, <2>3 DEF NotYetStored, BegunFirst
  <2>7. OpensOnce /\ SentFor BY <2>4, EffectNames DEF OpensOnce, SentFor
  <2>8. BeginsOnClient /\ ReadyEvents BY <2>4 DEF BeginsOnClient, ReadyEvents
  <2>9. ClosesOnce BY <2>4, EffectNames DEF ClosesOnce
  <2>10. CommittedTruly BY <2>1, <2>2, <2>3 DEF CommittedTruly
  <2>11. OrderlyNow BY <2>1, <2>2 DEF OrderlyNow, f
  <2> QED BY <2>5, <2>6, <2>7, <2>8, <2>9, <2>10, <2>11 DEF RecordInv
<1>2. TypeOK /\ CommitProtocol /\ RecordInv /\ [Next]_vars => RecordInv'
  <2> SUFFICES ASSUME TypeOK, CommitProtocol, RecordInv, [Next]_vars PROVE RecordInv'
    OBVIOUS
  <2>0. FedTypes BY TypeParts
  <2>1. flight \in [Drives -> Flights] BY <2>0 DEF FedTypes
  <2> USE DEF memory, world, bounds, progress, answers
  <2>2. CASE UNCHANGED vars
    <3>1. \A e \in Drives : Stands(e) BY <2>2 DEF vars, Stands
    <3> QED BY <2>2, <3>1, SameInv DEF vars
  <2>3. CASE ClientArrives
    <3>1. PICK cmd \in ClientInputs : Arrive("client", cmd) BY <2>3 DEF ClientArrives
    <3>2. /\ flight' = [flight EXCEPT !["client"] = Ready(ForwardedEvent(cmd), FALSE)]
          /\ store' = store /\ sent' = sent /\ m' = m /\ loaded' = loaded
          /\ runtime' = runtime /\ db' = db /\ link' = link
      BY <3>1 DEF Arrive
    <3>3. \A e \in Drives : Stands(e)
      <4> DEFINE f == Ready(ForwardedEvent(cmd), FALSE)
      <4>1. f.stage = "ready" /\ f.ev.type \notin EffectTypes BY StartEvents
      <4>2. flight' = [flight EXCEPT !["client"] = f] /\ "client" \in Drives
        BY <3>2 DEF Drives
      <4> HIDE DEF f
      <4> QED BY <2>0, <4>1, <4>2, StartStands
    <3> QED BY <3>2, <3>3, SameInv
  <2>4. CASE CallbackArrives
    <3>1. PICK q \in CallbackInputs : Arrive("callback", q) BY <2>4 DEF CallbackArrives
    <3>2. /\ flight' = [flight EXCEPT !["callback"] = Ready(ForwardedEvent(q), FALSE)]
          /\ store' = store /\ sent' = sent /\ m' = m /\ loaded' = loaded
          /\ runtime' = runtime /\ db' = db /\ link' = link
      BY <3>1 DEF Arrive
    <3>3. q.kind = "query" BY InputsAssumption
    <3>4. \A e \in Drives : Stands(e)
      <4> DEFINE f == Ready(ForwardedEvent(q), FALSE)
      <4>1. f.stage = "ready" /\ f.ev.type \notin EffectTypes /\ f.ev.cmd.kind = "query"
        BY <3>3, StartEvents
      <4>2. flight' = [flight EXCEPT !["callback"] = f] /\ "callback" \in Drives
        BY <3>2 DEF Drives
      <4> HIDE DEF f
      <4> QED BY <2>0, <4>1, <4>2, StartStands
    <3> QED BY <3>2, <3>4, SameInv
  <2>5. CASE TimerFires
    <3>1. /\ flight' = [flight EXCEPT !["timer"] = Ready(TimerEvent, FALSE)]
          /\ store' = store /\ sent' = sent /\ m' = m /\ loaded' = loaded
          /\ runtime' = runtime /\ db' = db /\ link' = link
      BY <2>5 DEF TimerFires
    <3>2. \A e \in Drives : Stands(e) BY <2>1, <3>1, StartEvents DEF Stands
    <3> QED BY <3>1, <3>2, SameInv
  <2>6. CASE DbApplies \/ DbAborts \/ DeadlinePasses
    <3>1. /\ flight' = flight /\ store' = store /\ sent' = sent /\ m' = m
          /\ loaded' = loaded /\ runtime' = runtime /\ link' = link
          /\ db' = db \/ db # "committed"
      BY <2>6 DEF DbApplies, DbAborts, DeadlinePasses
    <3>2. \A e \in Drives : Stands(e) BY <3>1 DEF Stands
    <3> QED BY <3>1, <3>2, SameInv
  <2>7. CASE \E d \in Drives : Progress(d)
    <3>1. PICK d \in Drives, ev \in Events, conn \in BOOLEAN, fails \in BOOLEAN :
            Feed(d, ev, conn, fails) /\ Heard(d, ev) /\ Happened(d, ev, conn)
      BY <2>0, <2>7, ProgressFeeds
    <3> QED BY <2>0, <3>1, FeedInv
  <2>8. CASE \E d \in Drives : SendCommit(d) BY <2>0, <2>8, SendInv
  <2>9. CASE \E d \in Drives : EngineFault(d) BY <2>0, <2>9, FaultInv
  <2>10. CASE Crash BY <2>0, <2>10, CrashInv
  <2> QED BY <2>2, <2>3, <2>4, <2>5, <2>6, <2>7, <2>8, <2>9, <2>10 DEF Next
<1> QED BY <1>1, <1>2, TypeCorrect, CommitProtocolHolds, PTL DEF Spec

(***************************************************************************)
(* The record can be trusted                                               *)
(***************************************************************************)
\* A record that says `committed` is of a transaction the database committed:
\* it is written only for COMMIT's own success, which the work that sent it
\* hears with the connection still there.
THEOREM CommittedIsTruth == Spec => []CommittedIsTrue
<1>1. RecordInv => CommittedIsTrue BY StoredCommitted DEF CommittedIsTrue
<1> QED BY <1>1, RecordInvariant, PTL

\* A statement, a validation, a commit and a rollback run only for the caller
\* that began the transaction, under its snapshot, on a runtime of that
\* snapshot, across redeployments: OrderlyNow says so of every work in progress.
THEOREM OwnBinding == Spec => []RunsUnderItsOwnBinding
<1>1. RecordInv => RunsUnderItsOwnBinding
  <2> SUFFICES ASSUME RecordInv PROVE RunsUnderItsOwnBinding OBVIOUS
  <2>1. CASE loaded
    <3>1. Orderly(m, runtime) BY <2>1 DEF RecordInv, OrderlyNow, Current
    <3> QED BY <3>1 DEF Orderly, Fits, Owns, RunsUnderItsOwnBinding
  <2>2. CASE ~loaded
    <3>1. m.work.task = "none" BY <2>2, FreshOrderly DEF RecordInv, OrderlyNow, NoWork
    <3> QED BY <3>1 DEF RunsUnderItsOwnBinding
  <2> QED BY <2>1, <2>2
<1> QED BY <1>1, RecordInvariant, PTL

\* What each step of the owner does to the store and the database.
LEMMA StoreSteps ==
    ASSUME TypeOK, CommitProtocol, RecordInv, [Next]_vars
    PROVE  \/ store' = store /\ sent' = sent /\ db' = db
           \/ /\ store'.phase \in Reach(store.phase)
              /\ store.phase \in Terminal => store' = store
              /\ \/ sent' = sent /\ db' = db
                 \/ sent' = sent /\ db = "open" /\ db' = "aborted"
                 \/ /\ sent = NotSent /\ sent' = NotSent /\ db' = "open"
                    /\ store.phase = "absent"
           \/ /\ store' = store /\ db' = db /\ sent = NotSent /\ sent' # NotSent
              /\ store.phase \in {"committing", "commit_unknown"}
           \/ /\ store' = store /\ sent' = sent /\ sent # NotSent /\ db = "open"
              /\ db' = "committed"
           \/ /\ store' = Unreadable /\ sent' = sent /\ db' = db
              /\ store.phase # "absent"
<1> USE DEF memory, world, bounds, progress, answers
<1>0. FedTypes BY TypeParts
<1>1. CASE UNCHANGED vars BY <1>1 DEF vars
<1>2. CASE ClientArrives \/ CallbackArrives \/ TimerFires \/ DeadlinePasses
  BY <1>2 DEF ClientArrives, CallbackArrives, Arrive, TimerFires, DeadlinePasses
<1>3. CASE \E d \in Drives : Progress(d)
  <2>1. PICK d \in Drives, ev \in Events, conn \in BOOLEAN, fails \in BOOLEAN :
          Feed(d, ev, conn, fails) /\ Heard(d, ev) /\ Happened(d, ev, conn)
    BY <1>0, <1>3, ProgressFeeds
  <2>2. PICK h \in HostFacts, took \in BOOLEAN, o \in Outputs :
          o = Run(h, ev) /\ Moved(h, ev, o) /\ Fed(d, conn, h, took, o)
    BY <1>0, <2>1, FeedStep DEF RecordInv
  <2>3. /\ store.phase \in Terminal => store' = store
        /\ store'.phase \in Reach(store.phase)
    BY <1>0, <2>1, <2>2, Written
  <2>4. Awaits(d, "open") => store.phase = "absent" /\ sent = NotSent
    BY AbsentUnsent DEF RecordInv, OpensOnce
  <2> QED BY <2>1, <2>3, <2>4 DEF Happened
<1>4. CASE \E d \in Drives : SendCommit(d)
  <2>1. PICK d \in Drives : SendCommit(d) BY <1>4
  <2>2. /\ Awaits(d, "commit") /\ ~flight[d].took /\ store' = store /\ db' = db
        /\ sent' = [seq |-> flight[d].arg, auth |-> store.auth]
    BY <2>1 DEF SendCommit
  <2>3. flight[d].arg # 0 /\ store.phase \notin {"unreadable", "discarded"}
    BY <2>2 DEF RecordInv, SentFor
  <2>4. sent' # NotSent BY <2>2, <2>3 DEF NotSent
  <2>5. sent = NotSent BY <2>2 DEF CommitProtocol, SentOnce
  <2>6. store.phase # "committed" BY <2>5, StoredCommitted
  <2>7. store.phase \in {"committing", "commit_unknown"}
    BY <2>2, <2>3, <2>6 DEF CommitProtocol, SealedByCommit, CommitPossible, Sealing
  <2> QED BY <2>2, <2>4, <2>5, <2>7
<1>5. CASE \E d \in Drives : EngineFault(d) BY <1>5 DEF EngineFault
<1>6. CASE DbApplies BY <1>6 DEF DbApplies
<1>7. CASE DbAborts
  <2>1. store' = store /\ sent' = sent /\ db = "open" /\ db' = "aborted"
    BY <1>7 DEF DbAborts
  <2> QED BY <2>1 DEF Reach
<1>8. CASE Crash
  <2>1. /\ sent' = sent /\ db' = db
        /\ store' = store \/ (store # NoRec /\ store' = Unreadable)
    BY <1>8 DEF Crash
  <2>2. store # NoRec => store.phase # "absent" BY DEF RecordInv, NotYetStored
  <2> QED BY <2>1, <2>2
<1> QED BY <1>1, <1>2, <1>3, <1>4, <1>5, <1>6, <1>7, <1>8 DEF Next

\* A terminal record is never rewritten with anything else: whatever arrives,
\* fails or is retried, only a successor that cannot read it discards it.
THEOREM TerminalForever == Spec => TerminalIsFinal
<1>1. TypeOK /\ CommitProtocol /\ RecordInv /\ [Next]_vars =>
         [store.phase \in Terminal => store' \in {store, Unreadable}]_vars
  BY StoreSteps
<1> QED BY <1>1, TypeCorrect, CommitProtocolHolds, RecordInvariant, PTL
        DEF Spec, TerminalIsFinal

\* Once COMMIT is handed to the database, no later request opens another
\* transaction under the same name, no other COMMIT is sent, and a committed
\* transaction stays committed.
THEOREM CommitForever == Spec => CommitIsForever
<1>1. TypeOK /\ CommitProtocol /\ RecordInv /\ [Next]_vars =>
         [sent # NotSent => /\ sent' = sent
                            /\ db = "committed" => db' = db]_vars
  BY StoreSteps
<1> QED BY <1>1, TypeCorrect, CommitProtocolHolds, RecordInvariant, PTL
        DEF Spec, CommitIsForever

\* Every step of the owner is a step of CommitRecord, or none at all.
LEMMA PromiseStep ==
    ASSUME TypeOK, CommitProtocol, RecordInv, CommitProtocol', RecordInv', [Next]_vars
    PROVE  [Promise!Next]_<<store.phase, sent # NotSent, db>>
<1>1. Unreadable.phase = "unreadable" BY DEF Unreadable, NoRec
<1>2. store'.phase \in Promise!Ended => sent' = NotSent
  BY DEF CommitProtocol, SealedByCommit, CommitPossible, Sealing, Promise!Ended
<1>3. store'.phase = "committed" => sent' # NotSent /\ db' = "committed"
  BY DEF RecordInv, MemoryFollows, CommittedTruly, Terminal
<1>4. CASE store' = store /\ sent' = sent /\ db' = db BY <1>4
<1>5. CASE /\ store'.phase \in Reach(store.phase)
           /\ sent' = sent /\ db' = db
  <2>1. CASE store'.phase = store.phase BY <1>5, <2>1
  <2>2. CASE store'.phase # store.phase
    <3>1. store'.phase \in Promise!Follows(store.phase) BY <1>5, <2>2 DEF Reach
    <3>2. Promise!Write BY <1>2, <1>3, <1>5, <3>1 DEF Promise!Write
    <3> QED BY <1>5, <3>2 DEF Promise!Next, Promise!Record
  <2> QED BY <2>1, <2>2
<1>6. CASE /\ store'.phase \in Reach(store.phase)
           /\ sent' = sent /\ db = "open" /\ db' = "aborted"
  <2>1. Promise!Write \/ Promise!Keep
    BY <1>2, <1>3, <1>6 DEF Reach, Promise!Write, Promise!Keep
  <2> QED BY <1>6, <2>1 DEF Promise!Next, Promise!Abort
<1>7. CASE /\ store'.phase \in Reach(store.phase)
           /\ sent = NotSent /\ sent' = NotSent /\ db' = "open"
           /\ store.phase = "absent"
  <2>1. Promise!Write \/ Promise!Keep
    BY <1>2, <1>3, <1>7 DEF Reach, Promise!Write, Promise!Keep
  <2> QED BY <1>7, <2>1 DEF Promise!Next, Promise!Open
<1>8. CASE /\ store' = store /\ db' = db /\ sent = NotSent /\ sent' # NotSent
           /\ store.phase \in {"committing", "commit_unknown"}
  BY <1>8 DEF Promise!Next, Promise!Send
<1>9. CASE /\ store' = store /\ sent' = sent /\ sent # NotSent /\ db = "open"
           /\ db' = "committed"
  BY <1>9 DEF Promise!Next, Promise!Apply
<1>10. CASE /\ store' = Unreadable /\ sent' = sent /\ db' = db
            /\ store.phase # "absent"
  BY <1>1, <1>10 DEF Promise!Next, Promise!Lose
<1> QED BY <1>4, <1>5, <1>6, <1>7, <1>8, <1>9, <1>10, StoreSteps

\* The owner implements CommitRecord: the store is its record, the COMMIT handed
\* to the database its send and the database transaction its fate, through
\* every interleaving of the drives, every fault and every loss of the owner.
THEOREM OwnerKeepsPromise == Spec => KeepsPromise
<1>1. Init => Promise!Init BY DEF Init, NoRec, Promise!Init
<1>2. TypeOK /\ CommitProtocol /\ RecordInv /\ CommitProtocol' /\ RecordInv' /\ [Next]_vars =>
         [Promise!Next]_<<store.phase, sent # NotSent, db>>
  BY PromiseStep
<1> QED BY <1>1, <1>2, TypeCorrect, CommitProtocolHolds, RecordInvariant, PTL
        DEF Spec, KeepsPromise, Promise!Spec
===============================================================================
