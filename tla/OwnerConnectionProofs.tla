------------------------- MODULE OwnerConnectionProofs -------------------------
(***************************************************************************)
(* What goes over the connection, for every value of the constants: one    *)
(* effect at a time uses it; a COMMIT covers exactly the statements that   *)
(* were executed; and it is sent only after the checks allowed it and the  *)
(* binding was confirmed.  What an effect in flight has to do with the     *)
(* state in memory is the invariant (UseInv, CountInv, CheckInv); each     *)
(* part is kept by every step of the machine (OwnerStepProofs,             *)
(* ProgressSteps), fault and loss.                                         *)
(***************************************************************************)
EXTENDS OwnerRecordProofs

(***************************************************************************)
(* The steps of the owner                                                  *)
(***************************************************************************)
\* An effect that is awaited after the step was awaited before it.
Lasts(e) ==
    flight'[e].stage = "effect" =>
        /\ flight[e].stage = "effect" /\ flight'[e].ev = flight[e].ev
        /\ flight'[e].arg = flight[e].arg /\ flight'[e].had = flight[e].had

\* No effect starts, and the state stays, or keeps no connection.
Unmoved == /\ \A e \in Drives : Lasts(e)
           /\ Current' = Current \/ Current'.conn # "open"

\* Drive d steps the event it heard.
Stepped(d, ev, conn, h, took, o) ==
    /\ Heard(d, ev) /\ Moved(h, ev, o) /\ Fed(d, conn, h, took, o)
    /\ Happened(d, ev, conn) /\ Progressed(d, ev)

\* A statement may have run whose outcome is lost with its drive.
Lost(d) ==
    /\ Unmoved /\ flight'[d].stage # "effect"
    /\ sent' = sent /\ allowedBy' = allowedBy /\ vetted' = vetted
    /\ \E ran \in BOOLEAN : Ran(d, ran)

Sends(d) ==
    /\ Unmoved /\ SameProgress /\ Awaits(d, "commit") /\ flight[d].had
    /\ sent'.seq = flight[d].arg

\* A drive that goes on, stops or starts awaits nothing new.
LEMMA StandsLast ==
    ASSUME \A e \in Drives : Stands(e)
    PROVE  \A e \in Drives : Lasts(e)
BY DEF Stands, Lasts

\* The state a successor starts from has no connection.
LEMMA DroppedState ==
    ASSUME loaded' = FALSE
    PROVE  Current'.conn # "open"
<1>1. Current' = Fresh(store') BY DEF Current
<1>2. Fresh(store').conn = "none" BY FreshOrderly
<1> QED BY <1>1, <1>2

\* What an engine fault does.
LEMMA FaultLoses ==
    ASSUME FedTypes, NEW d \in Drives, EngineFault(d)
    PROVE  Lost(d)
<1> USE DEF memory, world, bounds, progress, answers
<1>1. flight \in [Drives -> Flights] BY DEF FedTypes
<1>2. /\ sent' = sent /\ allowedBy' = allowedBy /\ vetted' = vetted /\ store' = store
      /\ \E ran \in BOOLEAN : Ran(d, ran)
      /\ \/ loaded' = FALSE /\ flight' = [flight EXCEPT ![d] = Idling]
         \/ /\ m' = m /\ loaded' = loaded
            /\ flight' = [flight EXCEPT ![d] = Ready(NoEvent, TRUE)]
  BY DEF EngineFault
<1>3. flight'[d].stage # "effect" /\ \A e \in Drives \ {d} : flight'[e] = flight[e]
  BY <1>1, <1>2, StartEvents
<1>4. \A e \in Drives : Lasts(e) BY <1>3 DEF Lasts
<1>5. Current' = Current \/ Current'.conn # "open"
  <2>1. CASE loaded' = FALSE BY <2>1, DroppedState
  <2>2. CASE m' = m /\ loaded' = loaded BY <1>2, <2>2 DEF Current
  <2> QED BY <1>2, <2>1, <2>2
<1> QED BY <1>2, <1>3, <1>4, <1>5 DEF Lost, Unmoved

\* Handing COMMIT to the database.
LEMMA SendSends ==
    ASSUME FedTypes, NEW d \in Drives, SendCommit(d)
    PROVE  Sends(d)
<1> USE DEF memory, world, bounds, progress, answers
<1>1. /\ Awaits(d, "commit") /\ flight[d].had
      /\ flight' = [flight EXCEPT ![d].took = TRUE]
      /\ sent' = [seq |-> flight[d].arg, auth |-> store.auth]
      /\ m' = m /\ loaded' = loaded /\ store' = store /\ SameProgress
  BY DEF SendCommit, SameProgress
<1>2. flight \in [Drives -> Flights] BY DEF FedTypes
<1>3. /\ flight'[d].stage = flight[d].stage /\ flight'[d].ev = flight[d].ev
      /\ flight'[d].had = flight[d].had /\ flight'[d].arg = flight[d].arg
      /\ \A e \in Drives \ {d} : flight'[e] = flight[e]
  BY <1>1, <1>2 DEF Flights
<1>4. \A e \in Drives : Lasts(e) BY <1>3 DEF Lasts
<1>5. Current' = Current BY <1>1 DEF Current
<1>6. sent'.seq = flight[d].arg BY <1>1
<1> QED BY <1>1, <1>4, <1>5, <1>6 DEF Sends, Unmoved

\* Every step of the owner is one of these.
LEMMA OwnerSteps ==
    ASSUME TypeOK, CommitProtocol, RecordInv, [Next]_vars
    PROVE  \/ \E d \in Drives, ev \in Events, conn \in BOOLEAN, h \in HostFacts,
                 took \in BOOLEAN, o \in Outputs : Stepped(d, ev, conn, h, took, o)
           \/ Unmoved /\ SameProgress /\ sent' = sent
           \/ \E d \in Drives : Sends(d) \/ Lost(d)
<1>0. FedTypes BY TypeParts
<1>1. flight \in [Drives -> Flights] BY <1>0 DEF FedTypes
<1> USE DEF memory, world, bounds, progress, answers
<1>2. CASE \/ UNCHANGED vars \/ ClientArrives \/ CallbackArrives \/ TimerFires
           \/ DbApplies \/ DbAborts \/ DeadlinePasses
  <2>1. /\ m' = m /\ loaded' = loaded /\ store' = store /\ sent' = sent /\ SameProgress
        /\ \/ flight' = flight
           \/ \E d \in Drives : \E cmd :
                 flight' = [flight EXCEPT ![d] = Ready(ForwardedEvent(cmd), FALSE)]
           \/ \E d \in Drives : flight' = [flight EXCEPT ![d] = Ready(TimerEvent, FALSE)]
    <3>1. CASE UNCHANGED vars BY <3>1 DEF vars, SameProgress
    <3>2. CASE ClientArrives BY <3>2 DEF ClientArrives, Arrive, SameProgress, Drives
    <3>3. CASE CallbackArrives BY <3>3 DEF CallbackArrives, Arrive, SameProgress, Drives
    <3>4. CASE TimerFires BY <3>4 DEF TimerFires, SameProgress, Drives
    <3>5. CASE DbApplies \/ DbAborts \/ DeadlinePasses
      BY <3>5 DEF DbApplies, DbAborts, DeadlinePasses, SameProgress
    <3> QED BY <1>2, <3>1, <3>2, <3>3, <3>4, <3>5
  <2>2. \A e \in Drives : Lasts(e)
    <3>1. CASE flight' = flight BY <3>1 DEF Lasts
    <3>2. ASSUME NEW d \in Drives, NEW f, f.stage # "effect",
                 flight' = [flight EXCEPT ![d] = f]
          PROVE  \A e \in Drives : Lasts(e)
      <4>1. flight'[d] = f /\ \A e \in Drives \ {d} : flight'[e] = flight[e]
        BY <1>1, <3>2
      <4> QED BY <3>2, <4>1 DEF Lasts
    <3>3. CASE \E d \in Drives : \E cmd :
                  flight' = [flight EXCEPT ![d] = Ready(ForwardedEvent(cmd), FALSE)]
      <4>1. PICK d \in Drives : \E cmd :
               flight' = [flight EXCEPT ![d] = Ready(ForwardedEvent(cmd), FALSE)]
        BY <3>3
      <4>2. PICK cmd : flight' = [flight EXCEPT ![d] = Ready(ForwardedEvent(cmd), FALSE)]
        BY <4>1
      <4> DEFINE f == Ready(ForwardedEvent(cmd), FALSE)
      <4>3. f.stage # "effect" BY StartEvents
      <4>4. flight' = [flight EXCEPT ![d] = f] BY <4>2
      <4> HIDE DEF f
      <4> QED BY <3>2, <4>3, <4>4
    <3>4. CASE \E d \in Drives : flight' = [flight EXCEPT ![d] = Ready(TimerEvent, FALSE)]
      <4>1. PICK d \in Drives : flight' = [flight EXCEPT ![d] = Ready(TimerEvent, FALSE)]
        BY <3>4
      <4> DEFINE f == Ready(TimerEvent, FALSE)
      <4>2. f.stage # "effect" BY StartEvents
      <4>3. flight' = [flight EXCEPT ![d] = f] BY <4>1
      <4> HIDE DEF f
      <4> QED BY <3>2, <4>2, <4>3
    <3> QED BY <2>1, <3>1, <3>3, <3>4
  <2>3. Current' = Current BY <2>1 DEF Current
  <2> QED BY <2>1, <2>2, <2>3 DEF Unmoved
<1>3. CASE \E d \in Drives : Progress(d)
  <2>1. PICK d \in Drives, ev \in Events, conn \in BOOLEAN, fails \in BOOLEAN :
          /\ Feed(d, ev, conn, fails) /\ Heard(d, ev)
          /\ Happened(d, ev, conn) /\ Progressed(d, ev)
    BY <1>0, <1>3, ProgressFeeds
  <2>2. PICK h \in HostFacts, took \in BOOLEAN, o \in Outputs :
          o = Run(h, ev) /\ Moved(h, ev, o) /\ Fed(d, conn, h, took, o)
    BY <1>0, <2>1, FeedStep DEF RecordInv
  <2>3. Stepped(d, ev, conn, h, took, o) BY <2>1, <2>2 DEF Stepped
  <2> QED BY <2>3
<1>4. CASE \E d \in Drives : SendCommit(d) BY <1>0, <1>4, SendSends
<1>5. CASE \E d \in Drives : EngineFault(d) BY <1>0, <1>5, FaultLoses
<1>6. CASE Crash
  <2>1. /\ loaded' = FALSE /\ sent' = sent /\ SameProgress
        /\ \A e \in Drives : flight'[e] = Idling
    BY <1>6 DEF Crash, SameProgress
  <2>2. \A e \in Drives : Lasts(e) BY <2>1, StartEvents DEF Lasts
  <2> QED BY <2>1, <2>2, DroppedState DEF Unmoved
<1> QED BY <1>2, <1>3, <1>4, <1>5, <1>6 DEF Next

(***************************************************************************)
(* A step of the machine on the state in memory                            *)
(***************************************************************************)
\* The state goes on, and drive d awaits what the step asks for.
GoesOn(d, ev, conn, h, o) ==
    /\ Current \in Machines /\ Consistent(Current) /\ Orderly(Current, runtime)
    /\ o.m \in Machines /\ Orderly(o.m, runtime) /\ Current' = o.m
    /\ m.work = Current.work
    /\ RecordSteps(Current, ev, o) /\ ConnSteps(Current, ev, o)
    /\ WorkSteps(Current, h, ev, o) /\ UseSteps(Current, h, ev, o)
    /\ CountSteps(Current, ev, o) /\ CheckSteps(Current, ev, o)
    /\ Heard(d, ev) /\ Happened(d, ev, conn) /\ Progressed(d, ev)
    /\ Current.work.id # h.id /\ \A e \in Drives : flight[e].ev.id # h.id
    /\ \A e \in Drives \ {d} : flight'[e] = flight[e]
    /\ o.await.type = "none" => flight'[d].stage = "idle"
    /\ o.await.type # "none" =>
          /\ flight'[d].stage = "effect" /\ flight'[d].ev.type = o.await.type
          /\ flight'[d].ev.id = h.id /\ flight'[d].arg = o.await.arg
          /\ flight'[d].had = conn

\* The state is dropped, or replaced by the tombstone of one that cannot be
\* read: the connection is not open, and drive d stops or stores the record.
Ended(d, ev, h) ==
    /\ Current'.conn # "open" /\ Heard(d, ev) /\ Progressed(d, ev)
    /\ m.work = Current.work
    /\ \A e \in Drives : flight[e].ev.id # h.id
    /\ \A e \in Drives \ {d} : flight'[e] = flight[e]
    /\ flight'[d].stage = "effect" =>
          flight'[d].ev.type = "persist" /\ flight'[d].ev.id = h.id

\* The work in memory is the current one: none if the owner is not loaded.
LEMMA WorkInMemory ==
    ASSUME RecordInv
    PROVE  m.work = Current.work
<1>1. CASE loaded BY <1>1 DEF Current
<1>2. CASE ~loaded
  <2>1. m = Fresh(NoRec) BY <1>2 DEF RecordInv, OrderlyNow
  <2>2. Fresh(NoRec).work = NoWork /\ Fresh(store).work = NoWork BY DEF Fresh
  <2>3. Current = Fresh(store) BY <1>2 DEF Current
  <2> QED BY <2>1, <2>2, <2>3
<1> QED BY <1>1, <1>2

\* A step from a state that can be read, and is kept, goes on.
LEMMA SteppedOn ==
    ASSUME FedTypes, CommitProtocol, RecordInv, NEW d \in Drives, NEW ev \in Events,
           NEW conn, NEW h \in HostFacts, NEW took \in BOOLEAN, NEW o \in Outputs,
           Stepped(d, ev, conn, h, took, o), loaded', ~(~loaded /\ store = Unreadable)
    PROVE  GoesOn(d, ev, conn, h, o)
<1>1. /\ Heard(d, ev) /\ Moved(h, ev, o) /\ Fed(d, conn, h, took, o)
      /\ Happened(d, ev, conn) /\ Progressed(d, ev)
  BY DEF Stepped
<1>2. /\ h.snap = runtime /\ m' = o.m /\ o.reset = FALSE
      /\ Current.work.id # h.id /\ \A e \in Drives : flight[e].ev.id # h.id
      /\ \A e \in Drives \ {d} : flight'[e] = flight[e]
      /\ o.await.type = "none" => flight'[d].stage = "idle"
      /\ o.await.type # "none" =>
            /\ flight'[d].stage = "effect" /\ flight'[d].ev.type = o.await.type
            /\ flight'[d].ev.id = o.await.id /\ flight'[d].arg = o.await.arg
            /\ flight'[d].had = conn
  BY <1>1 DEF Fed
<1>3. m.work = Current.work BY WorkInMemory
<1>4. Current' = o.m BY <1>2 DEF Current
<1>5. /\ Current \in Machines /\ Consistent(Current)
      /\ RecordSteps(Current, ev, o) /\ ConnSteps(Current, ev, o)
      /\ WorkSteps(Current, h, ev, o) /\ UseSteps(Current, h, ev, o)
      /\ CountSteps(Current, ev, o) /\ CheckSteps(Current, ev, o)
      /\ Orderly(o.m, h.snap)
  BY <1>1, <1>2 DEF Moved, Steps, Resets, ProgressSteps
<1>6. Orderly(Current, runtime) BY DEF RecordInv, OrderlyNow
<1>7. o.m \in Machines BY DEF Outputs
<1>8. o.await.type = "none" \/ o.await.id = h.id BY <1>5 DEF WorkSteps
<1> HIDE DEF Current
<1> QED BY <1>1, <1>2, <1>3, <1>4, <1>5, <1>6, <1>7, <1>8 DEF GoesOn

\* A step is one of the two.
LEMMA SteppedCases ==
    ASSUME FedTypes, CommitProtocol, RecordInv, NEW d \in Drives, NEW ev \in Events,
           NEW conn, NEW h \in HostFacts, NEW took \in BOOLEAN, NEW o \in Outputs,
           Stepped(d, ev, conn, h, took, o)
    PROVE  GoesOn(d, ev, conn, h, o) \/ Ended(d, ev, h)
<1>1. /\ Heard(d, ev) /\ Moved(h, ev, o) /\ Fed(d, conn, h, took, o)
      /\ Happened(d, ev, conn) /\ Progressed(d, ev)
  BY DEF Stepped
<1>2. /\ loaded' \in BOOLEAN
      /\ \/ loaded' /\ m' = o.m /\ o.reset = FALSE
         \/ ~loaded' /\ m' = Fresh(NoRec) /\ o.await.type = "none"
      /\ \A e \in Drives : flight[e].ev.id # h.id
      /\ \A e \in Drives \ {d} : flight'[e] = flight[e]
      /\ o.await.type = "none" => flight'[d].stage = "idle"
      /\ o.await.type # "none" =>
            /\ flight'[d].stage = "effect" /\ flight'[d].ev.type = o.await.type
            /\ flight'[d].ev.id = o.await.id
  BY <1>1 DEF Fed
<1>3. m.work = Current.work BY WorkInMemory
<1>4. CASE ~loaded'
  <2>1. Current'.conn # "open" BY <1>2, <1>4, DroppedState
  <2> QED BY <1>1, <1>2, <1>3, <1>4, <2>1 DEF Ended
<1>5. CASE loaded' /\ ~loaded /\ store = Unreadable
  <2>1. o.m.conn = "none" /\ o.await.type = "persist" /\ o.await.id = h.id
    BY <1>1, <1>5 DEF Moved
  <2>2. Current' = o.m BY <1>2, <1>5 DEF Current
  <2> QED BY <1>1, <1>2, <1>3, <2>1, <2>2 DEF Ended
<1>6. CASE loaded' /\ ~(~loaded /\ store = Unreadable) BY <1>6, SteppedOn
<1> QED BY <1>2, <1>4, <1>5, <1>6

\* The query an event answers belongs to the drive that heard it.
LEMMA QueryAnsweredFacts ==
    ASSUME NEW d \in Drives, NEW ev \in Events, Heard(d, ev),
           CallbackExecuting(Current), CallbackAnswered(Current, ev)
    PROVE  Awaits(d, "execute") /\ flight[d].ev.id = Current.callback.id
<1> HIDE DEF Current
<1>1. ev.type = "execute" /\ ev.id = Current.callback.id
  BY DEF CallbackAnswered, CallbackExecuting, CallbackAwaits
<1> QED BY <1>1, EffectNames DEF Heard

\* A name whose record in memory is absent has none in the store.
LEMMA AbsentStored ==
    ASSUME FedTypes, RecordInv, Current.rec.phase = "absent", Current \in Machines
    PROVE  store.phase = "absent"
<1>1. Tombstone.phase = "discarded" /\ Unreadable.phase = "unreadable"
  BY DEF Tombstone, Unreadable, NoRec
<1>2. store.phase = "unreadable" => Current.rec = Tombstone
  <2>1. CASE loaded BY <2>1 DEF RecordInv, MemoryFollows
  <2>2. CASE ~loaded
    <3>1. Current.rec = store BY <2>2 DEF Current, Fresh
    <3> QED BY <3>1
  <2> QED BY <2>1, <2>2
<1>3. /\ store.phase \in Terminal => Current.rec = store
      /\ store.phase \in Unended => Current.rec.phase \in Reach(store.phase)
  BY DEF RecordInv, MemoryFollows
<1> HIDE DEF Current
<1> QED BY <1>1, <1>2, <1>3, RecordPhases, ReachFacts
     DEF Terminal, Unended, HasDeadline, Phases, Endings

(***************************************************************************)
(* One effect at a time                                                    *)
(***************************************************************************)
\* Effects in flight have ids of their own.
UniqueIds ==
    \A d, e \in Drives :
        flight[d].stage = "effect" /\ flight[e].stage = "effect" =>
            (flight[d].ev.id = flight[e].ev.id => d = e)

\* While the connection is open, what executes on it is the statement of the
\* work in progress, or the query of its validation.
Attached ==
    Current.conn = "open" =>
        \A e \in Drives : Awaits(e, "execute") =>
            Executes(Current, flight[e].ev.id, flight[e].arg)

UseInv == UniqueIds /\ Attached /\ ConnectionExclusive

\* A drive that goes on awaiting uses what it used.
LEMMA LastsUses ==
    ASSUME NEW e \in Drives, Lasts(e) \/ flight'[e] = flight[e], flight'[e].stage = "effect"
    PROVE  /\ flight[e].stage = "effect" /\ flight'[e].ev = flight[e].ev
           /\ flight'[e].arg = flight[e].arg /\ flight'[e].had = flight[e].had
           /\ UsesConnection(e)' <=> UsesConnection(e)
           /\ \A type : Awaits(e, type)' <=> Awaits(e, type)
BY DEF Lasts, UsesConnection, Awaits

\* No new effect starts: what is in flight was so before.
LEMMA UseUnmoved ==
    ASSUME UseInv, Unmoved
    PROVE  UseInv'
<1>1. \A e \in Drives : flight'[e].stage = "effect" =>
         /\ flight[e].stage = "effect" /\ flight'[e].ev = flight[e].ev
         /\ flight'[e].arg = flight[e].arg
         /\ UsesConnection(e)' <=> UsesConnection(e)
         /\ Awaits(e, "execute")' <=> Awaits(e, "execute")
  BY LastsUses DEF Unmoved
<1>2. UniqueIds' BY <1>1 DEF UseInv, UniqueIds
<1>3. Attached'
  <2>1. CASE Current' = Current
    BY <1>1, <2>1 DEF UseInv, Attached, Awaits
  <2>2. CASE Current'.conn # "open" BY <2>2 DEF Attached
  <2> QED BY <2>1, <2>2 DEF Unmoved
<1>4. \A e \in Drives : UsesConnection(e)' => UsesConnection(e)
  BY <1>1 DEF UsesConnection
<1>5. ConnectionExclusive' BY <1>4 DEF UseInv, ConnectionExclusive
<1> QED BY <1>2, <1>3, <1>5 DEF UseInv

\* The step that ends the state keeps the users apart.
LEMMA UseEnded ==
    ASSUME UseInv, NEW d \in Drives, NEW ev \in Events, NEW h \in HostFacts,
           Ended(d, ev, h)
    PROVE  UseInv'
<1>1. /\ Current'.conn # "open" /\ \A e \in Drives : flight[e].ev.id # h.id
      /\ \A e \in Drives \ {d} : flight'[e] = flight[e]
      /\ flight'[d].stage = "effect" =>
            flight'[d].ev.type = "persist" /\ flight'[d].ev.id = h.id
  BY DEF Ended
<1>2. Attached' BY <1>1 DEF Attached
<1>3. UniqueIds' BY <1>1 DEF UseInv, UniqueIds
<1>4. ~UsesConnection(d)' BY <1>1 DEF UsesConnection
<1>5. \A e \in Drives \ {d} : UsesConnection(e)' <=> UsesConnection(e)
  BY <1>1 DEF UsesConnection
<1>6. ConnectionExclusive' BY <1>4, <1>5 DEF UseInv, ConnectionExclusive
<1> QED BY <1>2, <1>3, <1>6 DEF UseInv

\* Who executes what the event answers is the drive that heard it.
LEMMA OneExecutes ==
    ASSUME RecordInv, UniqueIds, NEW d \in Drives, NEW ev \in Events, Heard(d, ev),
           Current \in Machines, NEW e \in Drives, Awaits(e, "execute"),
           \/ /\ Current.work.task = "StatementExecute" /\ Answered(Current, ev)
              /\ Current.work.id = flight[e].ev.id
           \/ /\ CallbackExecuting(Current) /\ CallbackAnswered(Current, ev)
              /\ Current.callback.id = flight[e].ev.id
    PROVE  e = d
<1>1. flight[d].stage = "effect" /\ flight[d].ev.id = flight[e].ev.id
  <2>1. CASE Answered(Current, ev) /\ Current.work.id = flight[e].ev.id
    BY <2>1, AnsweredFacts
  <2>2. CASE /\ CallbackExecuting(Current) /\ CallbackAnswered(Current, ev)
             /\ Current.callback.id = flight[e].ev.id
    BY <2>2, QueryAnsweredFacts DEF Awaits
  <2> QED BY <2>1, <2>2
<1> QED BY <1>1 DEF UniqueIds, Awaits

\* A step of the machine keeps the users apart.
LEMMA UseLive ==
    ASSUME FedTypes, RecordInv, UseInv, NEW d \in Drives, NEW ev \in Events,
           NEW conn, NEW h \in HostFacts, NEW o \in Outputs, GoesOn(d, ev, conn, h, o)
    PROVE  UseInv'
<1> DEFINE c == Current
           type == o.await.type
<1>1. /\ c \in Machines /\ o.m \in Machines /\ Heard(d, ev)
      /\ ConnSteps(c, ev, o) /\ UseSteps(c, h, ev, o)
      /\ Current' = o.m /\ \A e \in Drives : flight[e].ev.id # h.id
      /\ \A e \in Drives \ {d} : flight'[e] = flight[e]
      /\ type = "none" => flight'[d].stage = "idle"
      /\ type # "none" =>
            /\ flight'[d].stage = "effect" /\ flight'[d].ev.type = type
            /\ flight'[d].ev.id = h.id /\ flight'[d].arg = o.await.arg
  BY DEF GoesOn
<1>2. UniqueIds /\ ConnectionExclusive BY DEF UseInv
<1>3. c.conn = "open" => \A e \in Drives : Awaits(e, "execute") =>
         Executes(c, flight[e].ev.id, flight[e].arg)
  BY DEF UseInv, Attached
<1>4. Answered(c, ev) =>
         /\ flight[d].ev.id = c.work.id /\ flight[d].stage = "effect"
         /\ c.work.task \in BeginTasks => d = "client"
         /\ c.work.task = "BeginOpen" => store.phase = "absent"
  BY <1>1, AnsweredFacts
<1>5. \A e \in Drives : Awaits(e, "open") => e = "client"
  BY DEF RecordInv, OpensOnce
<1>6. \A e \in Drives \ {"client"} :
         flight[e].stage = "effect" /\ flight[e].ev.type \in UsesOpen =>
            store.phase # "absent"
  BY DEF RecordInv, BeginsOnClient
<1>7. c.conn = "open" =>
         \A e \in Drives : /\ ~Awaits(e, "rollback") /\ ~Awaits(e, "commit")
                           /\ ~Awaits(e, "open")
  BY DEF RecordInv, ClosesOnce
<1>8. \A e \in Drives : Awaits(e, "execute") =>
         /\ /\ c.work.task = "StatementExecute" /\ Answered(c, ev)
            /\ c.work.id = flight[e].ev.id
            => e = d
         /\ /\ CallbackExecuting(c) /\ CallbackAnswered(c, ev)
            /\ c.callback.id = flight[e].ev.id
            => e = d
  BY <1>1, <1>2, OneExecutes
<1>9. c.rec.phase = "absent" => store.phase = "absent" BY <1>1, AbsentStored
<1> HIDE DEF c
<1>10. UniqueIds' BY <1>1, <1>2 DEF UniqueIds
<1>11. Attached'
  <2> SUFFICES ASSUME o.m.conn = "open", NEW e \in Drives, Awaits(e, "execute")'
               PROVE  Executes(o.m, flight'[e].ev.id, flight'[e].arg)
    BY <1>1 DEF Attached
  <2>1. CASE e = d
    <3>1. type = "execute" BY <1>1, <2>1 DEF Awaits
    <3> QED BY <1>1, <2>1, <3>1 DEF UseSteps
  <2>2. CASE e # d
    <3>1. flight'[e] = flight[e] /\ Awaits(e, "execute") BY <1>1, <2>2 DEF Awaits
    <3>2. c.conn = "open"
      <4> SUFFICES ASSUME c.conn # "open" PROVE FALSE OBVIOUS
      <4>1. AnsweredAs(c, ev, "BeginOpen", "ok") BY <1>1 DEF ConnSteps
      <4>2. d = "client" /\ store.phase = "absent"
        BY <1>4, <4>1 DEF AnsweredAs, BeginTasks
      <4> QED BY <1>6, <2>2, <3>1, <4>2 DEF Awaits, UsesOpen
    <3>3. Executes(c, flight[e].ev.id, flight[e].arg) BY <1>3, <3>1, <3>2
    <3>4. CASE c.work.task = "StatementExecute" /\ c.work.id = flight[e].ev.id
               /\ c.work.cmd.seq = flight[e].arg
      <4>1. o.m.work = c.work BY <1>1, <1>8, <2>2, <3>1, <3>4 DEF UseSteps
      <4> QED BY <3>1, <3>4, <4>1 DEF Executes
    <3>5. CASE CallbackExecuting(c) /\ c.callback.id = flight[e].ev.id
               /\ flight[e].arg = 0
      <4>1. o.m.callback = c.callback BY <1>1, <1>8, <2>2, <3>1, <3>5 DEF UseSteps
      <4> QED BY <3>1, <3>5, <4>1 DEF Executes, CallbackExecuting
    <3> QED BY <3>3, <3>4, <3>5 DEF Executes
  <2> QED BY <2>1, <2>2
<1>12. \A e \in Drives \ {d} : UsesConnection(e)' <=> UsesConnection(e)
  BY <1>1 DEF UsesConnection
<1>13. ASSUME UsesConnection(d)', NEW e \in Drives \ {d}, UsesConnection(e)
       PROVE  FALSE
  <2>1. type \in {"open", "execute", "commit", "rollback"}
    BY <1>1, <1>13 DEF UsesConnection
  <2>2. /\ flight[e].stage = "effect"
        /\ Awaits(e, "open") \/ Awaits(e, "execute") \/ Awaits(e, "commit")
           \/ Awaits(e, "rollback")
    BY <1>13 DEF UsesConnection, Awaits
  <2>3. CASE type = "open"
    <3>1. AnsweredAs(c, ev, "BeginBinding", "ok") /\ c.rec.phase = "absent"
      BY <1>1, <2>3 DEF ConnSteps
    <3>2. d = "client" BY <1>4, <3>1 DEF AnsweredAs, BeginTasks
    <3>3. store.phase = "absent" BY <1>9, <3>1
    <3> QED BY <1>5, <1>6, <1>13, <2>2, <3>2, <3>3 DEF Awaits, UsesOpen
  <2>4. CASE type \in {"execute", "commit", "rollback"}
    <3>1. c.conn = "open" /\ Free(c, ev) BY <1>1, <2>4 DEF ConnSteps, UseSteps
    <3>2. Awaits(e, "execute") BY <1>7, <2>2, <3>1
    <3>3. Executes(c, flight[e].ev.id, flight[e].arg) BY <1>3, <3>1, <3>2
    <3>4. e = d BY <1>8, <3>1, <3>2, <3>3 DEF Executes, Free, QueryFree
    <3> QED BY <1>13, <3>4
  <2> QED BY <2>1, <2>3, <2>4
<1>14. ConnectionExclusive' BY <1>2, <1>12, <1>13 DEF ConnectionExclusive
<1> QED BY <1>10, <1>11, <1>14 DEF UseInv

\* Every step keeps the users apart.
LEMMA UseStep ==
    ASSUME TypeOK, CommitProtocol, RecordInv, UseInv, [Next]_vars
    PROVE  UseInv'
<1>1. FedTypes BY TypeParts
<1>2. ASSUME NEW d \in Drives, NEW ev \in Events, NEW conn \in BOOLEAN,
             NEW h \in HostFacts, NEW took \in BOOLEAN, NEW o \in Outputs,
             Stepped(d, ev, conn, h, took, o)
      PROVE  UseInv'
  BY <1>1, <1>2, SteppedCases, UseLive, UseEnded
<1>3. Unmoved => UseInv' BY UseUnmoved
<1> QED BY <1>2, <1>3, OwnerSteps DEF Sends, Lost

\* The ids of effects are their own, and what executes belongs to the state.
THEOREM UseInvariant == Spec => []UseInv
<1>1. Init => UseInv
  <2> SUFFICES ASSUME Init PROVE UseInv OBVIOUS
  <2>1. \A e \in Drives : flight[e].stage = "idle" BY DEF Init, Idling
  <2> QED BY <2>1 DEF UseInv, UniqueIds, Attached, ConnectionExclusive,
             UsesConnection, Awaits
<1>2. TypeOK /\ CommitProtocol /\ RecordInv /\ UseInv /\ [Next]_vars => UseInv'
  BY UseStep
<1> QED BY <1>1, <1>2, TypeCorrect, CommitProtocolHolds, RecordInvariant, PTL DEF Spec

\* At most one effect at a time uses the connection, although three drives run
\* effects concurrently (ConnectionExclusive).
THEOREM ConnectionIsExclusive == Spec => []ConnectionExclusive
<1>1. UseInv => ConnectionExclusive BY DEF UseInv
<1> QED BY <1>1, UseInvariant, PTL

(***************************************************************************)
(* A COMMIT covers what was executed                                       *)
(***************************************************************************)
\* A statement in flight is the next one.
PendingUse ==
    \A e \in Drives : Awaits(e, "execute") /\ flight[e].had /\ flight[e].arg # 0 =>
        Len(applied) = flight[e].arg - 1

\* A statement whose drive failed is answered by no outcome: it may have run or
\* not, and its transaction can only end.
Orphan == /\ Current.work.task = "StatementExecute"
          /\ \A e \in Drives : Awaits(e, "execute") => flight[e].ev.id # Current.work.id

\* A transaction that can still commit counts what was executed.
Counted ==
    Runs(Current) => \/ Orphan
                     \/ /\ Len(applied) = Current.rec.seq - 1
                        /\ changed => Current.rec.dirty

\* So does the COMMIT in flight or sent, after which nothing is executed.
SentCounts ==
    /\ sent # NotSent => /\ \A e \in Drives : ~(Awaits(e, "execute") /\ flight[e].had)
                         /\ Len(applied) = sent.seq - 1
    /\ \A e \in Drives : Awaits(e, "commit") /\ flight[e].had =>
          Len(applied) = flight[e].arg - 1
InOrder == \A i \in 1..Len(applied) : applied[i] = i

CountInv == PendingUse /\ Counted /\ SentCounts /\ InOrder

\* What a step may do to the history of the statements.
Same == applied' = applied /\ changed' = changed /\ sent' = sent
Opens(d, ev) == /\ Awaits(d, "open") /\ ev.result = "ok" /\ sent' = NotSent
                /\ applied' = <<>> /\ changed' = FALSE
RunsOne(d) ==
    /\ Awaits(d, "execute") /\ flight[d].had /\ sent' = sent
    /\ applied' = IF flight[d].arg # 0 THEN Append(applied, flight[d].arg) ELSE applied
    /\ changed' = (changed \/ (/\ m.work.id = flight[d].ev.id
                               /\ m.work.cmd.pay = "write"))

\* An execution that ran is the next of the history, one that did not is none.
LEMMA RanHistory ==
    ASSUME NEW d \in Drives, NEW ran \in BOOLEAN, Ran(d, ran), sent' = sent,
           changed \in BOOLEAN
    PROVE  /\ Same \/ RunsOne(d)
           /\ ran => RunsOne(d)
<1>1. CASE ran BY <1>1 DEF Ran, RunsOne
<1>2. CASE ~ran BY <1>2 DEF Ran, Same
<1> QED BY <1>1, <1>2

\* An outcome, or the loss of one, opens a history, adds a statement to it or
\* leaves it alone.
LEMMA Histories ==
    ASSUME WorldTypes, NEW d \in Drives, NEW ev \in Events,
           Progressed(d, ev) \/ Lost(d)
    PROVE  Same \/ Opens(d, ev) \/ RunsOne(d)
<1>0. changed \in BOOLEAN BY DEF WorldTypes
<1>1. CASE Lost(d) BY <1>0, <1>1, RanHistory DEF Lost
<1>2. CASE Progressed(d, ev)
  <2>1. CASE /\ sent' = sent
             /\ \E ran \in BOOLEAN : Ran(d, ran) /\ (ev.result # "failed" => ran)
    BY <1>0, <2>1, RanHistory
  <2> QED BY <1>2, <2>1 DEF Progressed, SameProgress, Same, Opens
<1> QED BY <1>1, <1>2

\* A query changes no rows.
LEMMA QueryChangesNothing ==
    ASSUME RecordInv, Consistent(Current), NEW d \in Drives, RunsOne(d),
           CallbackExecuting(Current), Current.callback.id = flight[d].ev.id,
           flight[d].arg = 0, changed \in BOOLEAN
    PROVE  Same
<1>1. m.work = Current.work BY WorkInMemory
<1>2. Tidy(Current) BY DEF RecordInv, OrderlyNow, Orderly
<1>3. NoWork.cmd.pay # "write" BY DEF NoWork, NoCmd
<1> HIDE DEF Current
<1>4. ~(Current.work.id = flight[d].ev.id /\ Current.work.cmd.pay = "write")
  BY <1>2, <1>3 DEF Tidy, Consistent, CallbackExecuting
<1> QED BY <1>1, <1>4 DEF RunsOne, Same

\* Whoever uses the connection, or has sent COMMIT, sees no other history.
LEMMA HistoryKept ==
    ASSUME WorldTypes, CommitProtocol, RecordInv, UseInv, CountInv, NEW d \in Drives,
           NEW ev \in Events, Progressed(d, ev) \/ Lost(d)
    PROVE  /\ \A e \in Drives \ {d} : UsesConnection(e) => Same
           /\ sent # NotSent => Same
<1>1. Same \/ Opens(d, ev) \/ RunsOne(d) BY Histories
<1>2. Opens(d, ev) \/ RunsOne(d) => UsesConnection(d)
  BY DEF Opens, RunsOne, UsesConnection, Awaits
<1>3. \A e \in Drives \ {d} : UsesConnection(e) => Same
  BY <1>1, <1>2 DEF UseInv, ConnectionExclusive
<1>4. sent # NotSent => ~Opens(d, ev)
  BY AbsentUnsent DEF RecordInv, OpensOnce, Opens
<1>5. sent # NotSent => ~RunsOne(d) BY DEF CountInv, SentCounts, RunsOne
<1> QED BY <1>1, <1>3, <1>4, <1>5

\* One more statement in order.
LEMMA AppendInOrder ==
    ASSUME NEW s \in Seq(Nat), \A i \in 1..Len(s) : s[i] = i, NEW n \in Nat,
           Len(s) = n - 1
    PROVE  \A i \in 1..Len(Append(s, n)) : Append(s, n)[i] = i
OBVIOUS

\* What goes on in flight stays counted.
LEMMA OldCounts ==
    ASSUME FedTypes, WorldTypes, CommitProtocol, RecordInv, UseInv, CountInv,
           NEW d \in Drives, NEW ev \in Events, Progressed(d, ev) \/ Lost(d),
           \A e \in Drives \ {d} : Lasts(e) \/ flight'[e] = flight[e]
    PROVE  /\ InOrder'
           /\ \A e \in Drives \ {d} :
                 /\ Awaits(e, "execute")' /\ flight'[e].had /\ flight'[e].arg # 0 =>
                       Len(applied') = flight'[e].arg - 1
                 /\ Awaits(e, "commit")' /\ flight'[e].had =>
                       Len(applied') = flight'[e].arg - 1
           /\ sent' # NotSent =>
                 /\ sent # NotSent /\ Len(applied') = sent'.seq - 1
                 /\ \A e \in Drives \ {d} : ~(Awaits(e, "execute")' /\ flight'[e].had)
<1>1. /\ \A e \in Drives \ {d} : UsesConnection(e) => Same
      /\ sent # NotSent => Same
  BY HistoryKept
<1>2. Same \/ Opens(d, ev) \/ RunsOne(d) BY Histories
<1>3. /\ applied \in Seq(Nat) /\ flight \in [Drives -> Flights]
      /\ flight[d].arg \in Nat
  BY DEF WorldTypes, FedTypes, Flights
<1>4. InOrder'
  <2>1. CASE Same BY <2>1 DEF CountInv, InOrder, Same
  <2>2. CASE Opens(d, ev) BY <2>2 DEF InOrder, Opens
  <2>3. CASE RunsOne(d)
    <3>1. CASE flight[d].arg = 0 BY <2>3, <3>1 DEF RunsOne, CountInv, InOrder
    <3>2. CASE flight[d].arg # 0
      <4>1. Len(applied) = flight[d].arg - 1 BY <2>3, <3>2 DEF RunsOne, CountInv, PendingUse
      <4>2. applied' = Append(applied, flight[d].arg) BY <2>3, <3>2 DEF RunsOne
      <4>3. \A i \in 1..Len(applied) : applied[i] = i BY DEF CountInv, InOrder
      <4> QED BY <1>3, <4>1, <4>2, <4>3, AppendInOrder DEF InOrder
    <3> QED BY <3>1, <3>2
  <2> QED BY <1>2, <2>1, <2>2, <2>3
<1>5. \A e \in Drives \ {d} :
         /\ Awaits(e, "execute")' /\ flight'[e].had /\ flight'[e].arg # 0 =>
               Len(applied') = flight'[e].arg - 1
         /\ Awaits(e, "commit")' /\ flight'[e].had =>
               Len(applied') = flight'[e].arg - 1
  <2> SUFFICES ASSUME NEW e \in Drives \ {d}, flight'[e].stage = "effect", flight'[e].had
               PROVE  /\ Awaits(e, "execute")' /\ flight'[e].arg # 0 =>
                            Len(applied') = flight'[e].arg - 1
                      /\ Awaits(e, "commit")' => Len(applied') = flight'[e].arg - 1
    BY DEF Awaits
  <2>1. /\ flight'[e].arg = flight[e].arg /\ flight'[e].had = flight[e].had
        /\ Awaits(e, "execute")' <=> Awaits(e, "execute")
        /\ Awaits(e, "commit")' <=> Awaits(e, "commit")
    BY LastsUses
  <2>2. Awaits(e, "execute") \/ Awaits(e, "commit") => UsesConnection(e)
    BY <2>1 DEF UsesConnection, Awaits
  <2>3. Awaits(e, "execute") \/ Awaits(e, "commit") => applied' = applied
    BY <1>1, <2>2 DEF Same
  <2> QED BY <2>1, <2>3 DEF CountInv, PendingUse, SentCounts
<1>6. ASSUME sent' # NotSent
      PROVE  /\ sent # NotSent /\ Len(applied') = sent'.seq - 1
             /\ \A e \in Drives \ {d} : ~(Awaits(e, "execute")' /\ flight'[e].had)
  <2>1. sent # NotSent BY <1>2, <1>6 DEF Same, Opens, RunsOne
  <2>2. Same BY <1>1, <2>1
  <2>3. Len(applied') = sent'.seq - 1 BY <2>1, <2>2 DEF CountInv, SentCounts, Same
  <2>4. \A e \in Drives \ {d} : ~(Awaits(e, "execute")' /\ flight'[e].had)
    <3> SUFFICES ASSUME NEW e \in Drives \ {d}, Awaits(e, "execute")', flight'[e].had
                 PROVE  FALSE
      OBVIOUS
    <3>1. flight'[e].stage = "effect" BY DEF Awaits
    <3>2. Awaits(e, "execute") /\ flight[e].had BY <3>1, LastsUses
    <3> QED BY <2>1, <3>2 DEF CountInv, SentCounts
  <2> QED BY <2>1, <2>3, <2>4
<1> QED BY <1>4, <1>5, <1>6

\* The step that ends the state keeps the count.
LEMMA CountEnded ==
    ASSUME FedTypes, WorldTypes, CommitProtocol, RecordInv, UseInv, CountInv,
           NEW d \in Drives, NEW ev \in Events, NEW h \in HostFacts, Ended(d, ev, h)
    PROVE  CountInv'
<1>1. /\ Current'.conn # "open" /\ Progressed(d, ev)
      /\ \A e \in Drives \ {d} : flight'[e] = flight[e]
      /\ ~Awaits(d, "execute")' /\ ~Awaits(d, "commit")'
  BY DEF Ended, Awaits
<1>2. /\ InOrder'
      /\ \A e \in Drives \ {d} :
            /\ Awaits(e, "execute")' /\ flight'[e].had /\ flight'[e].arg # 0 =>
                  Len(applied') = flight'[e].arg - 1
            /\ Awaits(e, "commit")' /\ flight'[e].had =>
                  Len(applied') = flight'[e].arg - 1
      /\ sent' # NotSent =>
            /\ Len(applied') = sent'.seq - 1
            /\ \A e \in Drives \ {d} : ~(Awaits(e, "execute")' /\ flight'[e].had)
  BY <1>1, OldCounts
<1>3. Counted' BY <1>1 DEF Counted, Runs
<1>4. PendingUse' BY <1>1, <1>2 DEF PendingUse
<1>5. SentCounts' BY <1>1, <1>2 DEF SentCounts
<1> QED BY <1>2, <1>3, <1>4, <1>5 DEF CountInv

\* So does a step that starts no effect and runs no statement.
LEMMA CountUnmoved ==
    ASSUME UseInv, CountInv, Unmoved, SameProgress,
           \/ sent' = sent
           \/ \E d \in Drives : /\ Awaits(d, "commit") /\ flight[d].had
                                /\ sent'.seq = flight[d].arg
    PROVE  CountInv'
<1>1. \A e \in Drives : flight'[e].stage = "effect" =>
         /\ flight[e].stage = "effect" /\ flight'[e].ev = flight[e].ev
         /\ flight'[e].arg = flight[e].arg /\ flight'[e].had = flight[e].had
  BY LastsUses DEF Unmoved
<1>2. applied' = applied /\ changed' = changed BY DEF SameProgress
<1>3. InOrder' BY <1>2 DEF CountInv, InOrder
<1>4. PendingUse' BY <1>1, <1>2 DEF CountInv, PendingUse, Awaits
<1>5. SentCounts'
  <2>1. CASE sent' = sent BY <1>1, <1>2, <2>1 DEF CountInv, SentCounts, Awaits
  <2>2. ASSUME NEW d \in Drives, Awaits(d, "commit"), flight[d].had,
               sent'.seq = flight[d].arg
        PROVE  SentCounts'
    <3>1. \A e \in Drives : ~(Awaits(e, "execute") /\ flight[e].had)
      BY <2>2 DEF UseInv, ConnectionExclusive, UsesConnection, Awaits
    <3>2. Len(applied) = flight[d].arg - 1 BY <2>2 DEF CountInv, SentCounts
    <3> QED BY <1>1, <1>2, <2>2, <3>1, <3>2 DEF CountInv, SentCounts, Awaits
  <2> QED BY <2>1, <2>2
<1>6. Counted'
  <2>1. CASE Current' = Current
    <3>1. Orphan => Orphan' BY <1>1, <2>1 DEF Orphan, Awaits
    <3> HIDE DEF Current
    <3> QED BY <1>2, <2>1, <3>1 DEF CountInv, Counted
  <2>2. CASE Current'.conn # "open" BY <2>2 DEF Counted, Runs
  <2> QED BY <2>1, <2>2 DEF Unmoved
<1> QED BY <1>3, <1>4, <1>5, <1>6 DEF CountInv

\* A statement whose outcome is lost leaves a transaction that can only end.
LEMMA CountLost ==
    ASSUME FedTypes, WorldTypes, CommitProtocol, RecordInv, UseInv, CountInv,
           NEW d \in Drives, Lost(d)
    PROVE  CountInv'
<1>1. /\ Unmoved /\ flight'[d].stage # "effect" /\ sent' = sent
      /\ ~Awaits(d, "execute")' /\ ~Awaits(d, "commit")'
  BY DEF Lost, Awaits
<1>2. \A e \in Drives : Lasts(e) BY <1>1 DEF Unmoved
<1>3. NoEvent \in Events BY FlightTypes
<1>4. /\ InOrder'
      /\ \A e \in Drives \ {d} :
            /\ Awaits(e, "execute")' /\ flight'[e].had /\ flight'[e].arg # 0 =>
                  Len(applied') = flight'[e].arg - 1
            /\ Awaits(e, "commit")' /\ flight'[e].had =>
                  Len(applied') = flight'[e].arg - 1
      /\ sent' # NotSent =>
            /\ Len(applied') = sent'.seq - 1
            /\ \A e \in Drives \ {d} : ~(Awaits(e, "execute")' /\ flight'[e].had)
  BY <1>2, <1>3, OldCounts
<1>5. PendingUse' BY <1>1, <1>4 DEF PendingUse
<1>6. SentCounts' BY <1>1, <1>4 DEF SentCounts
<1>7. Counted'
  <2> SUFFICES ASSUME Current'.conn = "open", Current' = Current
               PROVE  Counted'
    BY <1>1 DEF Unmoved, Counted, Runs
  <2>1. \A e \in Drives : Awaits(e, "execute")' =>
           Awaits(e, "execute") /\ flight'[e].ev = flight[e].ev /\ e # d
    BY <1>1, <1>2 DEF Lasts, Awaits
  <2>2. CASE Same
    <3>1. Orphan => Orphan' BY <2>1 DEF Orphan
    <3> HIDE DEF Current
    <3> QED BY <2>2, <3>1 DEF CountInv, Counted, Same
  <2>3. CASE RunsOne(d)
    <3>1. Executes(Current, flight[d].ev.id, flight[d].arg)
      BY <2>3 DEF UseInv, Attached, RunsOne
    <3>2. CASE Current.work.task = "StatementExecute"
               /\ Current.work.id = flight[d].ev.id
      <4>1. \A e \in Drives : Awaits(e, "execute")' => flight'[e].ev.id # Current.work.id
        BY <2>1, <2>3, <3>2 DEF UseInv, UniqueIds, Awaits, RunsOne
      <4>2. Orphan' BY <3>2, <4>1 DEF Orphan
      <4> QED BY <4>2 DEF Counted
    <3>3. CASE CallbackExecuting(Current) /\ Current.callback.id = flight[d].ev.id
               /\ flight[d].arg = 0
      <4>1. Consistent(Current) BY CurrentFacts
      <4>2. Same BY <2>3, <3>3, <4>1, QueryChangesNothing DEF WorldTypes
      <4> QED BY <2>2, <4>2
    <3> QED BY <3>1, <3>2, <3>3 DEF Executes
  <2> QED BY <2>2, <2>3, RanHistory DEF Lost, WorldTypes
<1> QED BY <1>4, <1>5, <1>6, <1>7 DEF CountInv

\* The outcome of an effect is heard by the drive that awaits it.
LEMMA HeardOutcome ==
    ASSUME NEW d \in Drives, NEW ev \in Events, Heard(d, ev), NEW type \in EffectTypes,
           Awaits(d, type)
    PROVE  ev.type = type /\ ev.id = flight[d].ev.id
BY DEF Heard, Awaits

\* A statement that the step answers ran under the sequence of the record, and
\* any other leaves the history alone.
LEMMA StatementRan ==
    ASSUME WorldTypes, RecordInv, UseInv, NEW d \in Drives, NEW ev \in Events, NEW conn,
           NEW h \in HostFacts, NEW o \in Outputs, GoesOn(d, ev, conn, h, o), RunsOne(d),
           Current.conn = "open"
    PROVE  \/ Same
           \/ /\ Answered(Current, ev) /\ Current.work.task = "StatementExecute"
              /\ flight[d].arg = Current.work.cmd.seq
<1>1. /\ Current \in Machines /\ Consistent(Current) /\ Heard(d, ev)
      /\ changed \in BOOLEAN /\ Awaits(d, "execute")
  BY DEF GoesOn, WorldTypes, RunsOne
<1>2. Executes(Current, flight[d].ev.id, flight[d].arg) BY <1>1 DEF UseInv, Attached
<1>3. ev.type = "execute" /\ ev.id = flight[d].ev.id
  BY <1>1, HeardOutcome, EffectNames
<1>4. CASE /\ Current.work.task = "StatementExecute" /\ Current.work.id = flight[d].ev.id
           /\ Current.work.cmd.seq = flight[d].arg
  <2> HIDE DEF Current
  <2> QED BY <1>3, <1>4, AwaitedEffects DEF Answered, HasWork
<1>5. CASE /\ CallbackExecuting(Current) /\ Current.callback.id = flight[d].ev.id
           /\ flight[d].arg = 0
  BY <1>1, <1>5, QueryChangesNothing
<1> QED BY <1>2, <1>4, <1>5 DEF Executes

\* A step of the machine keeps a transaction that can still commit counted.
LEMMA CountedLive ==
    ASSUME FedTypes, WorldTypes, CommitProtocol, RecordInv, UseInv, CountInv,
           NEW d \in Drives, NEW ev \in Events, NEW conn, NEW h \in HostFacts,
           NEW o \in Outputs, GoesOn(d, ev, conn, h, o)
    PROVE  Counted'
<1> DEFINE c == Current
<1>1. /\ c \in Machines /\ o.m \in Machines /\ Heard(d, ev) /\ Consistent(c)
      /\ RecordSteps(c, ev, o) /\ ConnSteps(c, ev, o) /\ UseSteps(c, h, ev, o)
      /\ CountSteps(c, ev, o) /\ Orderly(c, runtime)
      /\ Current' = o.m /\ m.work = c.work /\ c.work.id # h.id
      /\ \A e \in Drives \ {d} : flight'[e] = flight[e]
      /\ o.await.type # "none" => flight'[d].ev.id = h.id
      /\ o.await.type = "none" => flight'[d].stage = "idle"
      /\ Progressed(d, ev)
  BY DEF GoesOn
<1>2. Same \/ Opens(d, ev) \/ RunsOne(d) BY <1>1, Histories
<1>3. Answered(c, ev) =>
         /\ Awaits(d, AwaitedBy(c.work.task)) /\ flight[d].ev.id = c.work.id
         /\ c.work.task = "BeginOpen" => c.rec.phase = "absent"
  BY <1>1, AnsweredFacts
<1>4. /\ c.rec.seq \in Nat /\ o.m.rec.seq \in Nat /\ c.rec.phase \in Phases
      /\ applied \in Seq(Nat) /\ changed \in BOOLEAN /\ flight[d].arg \in Nat
      /\ c.rec.dirty \in BOOLEAN
  BY <1>1, MachineFields DEF WorldTypes, FedTypes, Flights, Records
<1>5. Runs(c) => \/ Orphan
                 \/ Len(applied) = c.rec.seq - 1 /\ (changed => c.rec.dirty)
  BY DEF CountInv, Counted
<1>6. c.conn = "open" => \A e \in Drives : ~Awaits(e, "open")
  BY DEF RecordInv, ClosesOnce
<1>7. c.conn = "open" /\ RunsOne(d) =>
         \/ Same
         \/ /\ Answered(c, ev) /\ c.work.task = "StatementExecute"
            /\ flight[d].arg = c.work.cmd.seq
  BY StatementRan
<1>8. Orphan = (/\ c.work.task = "StatementExecute"
                /\ \A e \in Drives : Awaits(e, "execute") => flight[e].ev.id # c.work.id)
  BY DEF Orphan
<1>9. Orphan' = (/\ o.m.work.task = "StatementExecute"
                 /\ \A e \in Drives : Awaits(e, "execute")' =>
                       flight'[e].ev.id # o.m.work.id)
  BY <1>1 DEF Orphan
<1> HIDE DEF c
<1> SUFFICES ASSUME Runs(o.m)
             PROVE  Orphan' \/ (/\ Len(applied') = o.m.rec.seq - 1
                                /\ changed' => o.m.rec.dirty)
  BY <1>1 DEF Counted
<1>10. CASE AnsweredAs(c, ev, "BeginOpen", "ok")
  <2>1. c.rec.phase = "absent" /\ Awaits(d, "open") /\ ev.result = "ok" /\ ev.type = "open"
    BY <1>3, <1>10, AwaitedEffects DEF AnsweredAs, Answered
  <2>2. o.m.rec.phase = "active"
    BY <1>1, <2>1 DEF RecordSteps, Leads, Runs, HasDeadline, Terminal
  <2>3. o.m.rec.seq = 1 BY <1>1, <2>1, <2>2 DEF RecordSteps
  <2>4. applied' = <<>> /\ changed' = FALSE BY <1>1, <2>1 DEF Progressed, Awaits
  <2> QED BY <2>3, <2>4
<1>11. CASE /\ AnsweredAs(c, ev, "StatementExecute", "ok")
            /\ o.m.rec.seq = c.rec.seq + 1
            /\ o.m.rec.dirty = (c.rec.dirty \/ c.work.cmd.pay = "write")
  <2>1. /\ Awaits(d, "execute") /\ ev.result = "ok" /\ ev.type = "execute"
        /\ flight[d].ev.id = c.work.id /\ c.work.task = "StatementExecute"
    BY <1>3, <1>11, AwaitedEffects DEF AnsweredAs, Answered
  <2>2. /\ c.rec.phase = "active" /\ c.conn = "open"
        /\ c.work.cmd.seq # 0 /\ c.work.cmd.seq = c.rec.seq
    BY <1>1, <2>1 DEF Orderly, Fits, At, Owns
  <2>3. RunsOne(d)
    <3>1. sent' = sent /\ \E ran \in BOOLEAN : Ran(d, ran) /\ (ev.result # "failed" => ran)
      BY <1>1, <2>1 DEF Progressed, Awaits
    <3> QED BY <1>4, <2>1, <3>1, RanHistory
  <2>4. flight[d].arg = c.rec.seq
    <3>1. Executes(c, flight[d].ev.id, flight[d].arg)
      BY <2>1, <2>2 DEF UseInv, Attached, c
    <3> QED BY <1>1, <2>1, <2>2, <3>1 DEF Executes, Consistent, HasWork, CallbackExecuting
  <2>5. Len(applied) = c.rec.seq - 1
    BY <2>1, <2>2, <2>3, <2>4 DEF CountInv, PendingUse, RunsOne
  <2>6. applied' = Append(applied, c.rec.seq) BY <2>2, <2>3, <2>4 DEF RunsOne
  <2>7. Len(applied') = o.m.rec.seq - 1 BY <1>4, <1>11, <2>5, <2>6
  <2>8. changed => c.rec.dirty
    BY <1>5, <1>8, <2>1, <2>2 DEF Runs, HasDeadline
  <2>9. changed' => o.m.rec.dirty BY <1>1, <1>11, <2>3, <2>8 DEF RunsOne
  <2> QED BY <2>7, <2>9
<1>12. CASE /\ o.m.rec.seq = c.rec.seq /\ o.m.rec.dirty = c.rec.dirty
            /\ ~(Answered(c, ev) /\ c.work.task = "StatementExecute")
            /\ ~AnsweredAs(c, ev, "BeginOpen", "ok")
  <2>1. c.conn = "open" BY <1>1, <1>12 DEF ConnSteps, Runs
  <2>2. c.rec.phase \in HasDeadline
    BY <1>1, <2>1 DEF Orderly, Holds, RecordSteps, Runs, Terminal, HasDeadline
  <2>3. Runs(c) BY <2>1, <2>2 DEF Runs
  <2>4. CASE Orphan
    <3>1. o.m.work = c.work BY <1>1, <1>8, <1>12, <2>4 DEF UseSteps, Runs
    <3>2. \A e \in Drives : Awaits(e, "execute")' => flight'[e].ev.id # c.work.id
      BY <1>1, <1>8, <2>4 DEF Awaits
    <3> QED BY <1>8, <1>9, <2>4, <3>1, <3>2
  <2>5. CASE ~Orphan
    <3>1. Same BY <1>2, <1>6, <1>7, <1>12, <2>1 DEF Opens
    <3> QED BY <1>5, <1>12, <2>3, <2>5, <3>1 DEF Same
  <2> QED BY <2>4, <2>5
<1> QED BY <1>1, <1>10, <1>11, <1>12 DEF CountSteps

\* A step of the machine keeps the count.
LEMMA CountLive ==
    ASSUME FedTypes, WorldTypes, CommitProtocol, RecordInv, UseInv, CountInv,
           NEW d \in Drives, NEW ev \in Events, NEW conn, NEW h \in HostFacts,
           NEW o \in Outputs, GoesOn(d, ev, conn, h, o)
    PROVE  CountInv'
<1> DEFINE c == Current
           type == o.await.type
<1>1. /\ c \in Machines /\ o.m \in Machines /\ Heard(d, ev)
      /\ ConnSteps(c, ev, o) /\ UseSteps(c, h, ev, o)
      /\ Orderly(c, runtime) /\ Orderly(o.m, runtime)
      /\ Current' = o.m
      /\ \A e \in Drives \ {d} : flight'[e] = flight[e]
      /\ type = "none" => flight'[d].stage = "idle"
      /\ type # "none" =>
            /\ flight'[d].stage = "effect" /\ flight'[d].ev.type = type
            /\ flight'[d].ev.id = h.id /\ flight'[d].arg = o.await.arg
      /\ Progressed(d, ev)
  BY DEF GoesOn
<1>2. Counted' BY CountedLive
<1>3. /\ InOrder'
      /\ \A e \in Drives \ {d} :
            /\ Awaits(e, "execute")' /\ flight'[e].had /\ flight'[e].arg # 0 =>
                  Len(applied') = flight'[e].arg - 1
            /\ Awaits(e, "commit")' /\ flight'[e].had =>
                  Len(applied') = flight'[e].arg - 1
      /\ sent' # NotSent =>
            /\ sent # NotSent /\ Len(applied') = sent'.seq - 1
            /\ \A e \in Drives \ {d} : ~(Awaits(e, "execute")' /\ flight'[e].had)
  BY <1>1, OldCounts
<1>4. Same \/ Opens(d, ev) \/ RunsOne(d) BY <1>1, Histories
<1>5. Answered(c, ev) => Awaits(d, AwaitedBy(c.work.task))
  BY <1>1, AnsweredFacts
<1>6. Runs(c) => Orphan \/ Len(applied) = c.rec.seq - 1
  BY DEF CountInv, Counted
<1>7. Orphan => c.work.task = "StatementExecute" BY DEF Orphan
<1>8. Runs(o.m) => Orphan' \/ Len(applied') = o.m.rec.seq - 1
  BY <1>1, <1>2 DEF Counted
<1>9. Orphan' => \A e \in Drives : Awaits(e, "execute")' => flight'[e].ev.id # o.m.work.id
  BY <1>1 DEF Orphan
<1>10. sent # NotSent => c.conn # "open"
  <2>1. CASE loaded
    BY <2>1 DEF CommitProtocol, SealedByCommit, CommitPossible, Sealed, Current
  <2>2. CASE ~loaded
    <3>1. c = Fresh(store) BY <2>2 DEF Current
    <3> QED BY <3>1, FreshOrderly
  <2> QED BY <2>1, <2>2
<1> HIDE DEF c
<1>11. PendingUse'
  <2> SUFFICES ASSUME Awaits(d, "execute")', flight'[d].arg # 0
               PROVE  Len(applied') = flight'[d].arg - 1
    BY <1>3 DEF PendingUse
  <2>1. type = "execute" /\ flight'[d].arg = o.await.arg /\ flight'[d].ev.id = h.id
    BY <1>1 DEF Awaits
  <2>2. /\ o.m.work.task = "StatementExecute" /\ o.m.work.id = h.id
        /\ o.m.work.cmd.seq = flight'[d].arg
    BY <1>1, <2>1 DEF UseSteps, Executes
  <2>3. Runs(o.m) /\ o.m.work.cmd.seq = o.m.rec.seq
    BY <1>1, <2>2 DEF Orderly, Fits, At, Owns, Runs, HasDeadline
  <2> QED BY <1>8, <1>9, <2>1, <2>2, <2>3
<1>12. SentCounts'
  <2>1. sent' # NotSent => ~Awaits(d, "execute")'
    <3> SUFFICES ASSUME sent' # NotSent, Awaits(d, "execute")' PROVE FALSE OBVIOUS
    <3>1. type = "execute" BY <1>1 DEF Awaits
    <3>2. c.conn = "open" BY <1>1, <3>1 DEF ConnSteps
    <3> QED BY <1>3, <1>10, <3>2
  <2>2. Awaits(d, "commit")' => Len(applied') = flight'[d].arg - 1
    <3> SUFFICES ASSUME Awaits(d, "commit")' PROVE Len(applied') = flight'[d].arg - 1
      OBVIOUS
    <3>1. type = "commit" /\ flight'[d].arg = o.await.arg BY <1>1 DEF Awaits
    <3>2. AnsweredAs(c, ev, "CommitPersist", "ok") /\ o.await.arg = c.rec.seq
      BY <1>1, <3>1 DEF UseSteps
    <3>3. Awaits(d, "persist") /\ c.work.task = "CommitPersist"
      BY <1>5, <3>2, AwaitedEffects DEF AnsweredAs
    <3>4. applied' = applied BY <1>4, <3>3 DEF Same, Opens, RunsOne, Awaits
    <3>5. Runs(c) BY <1>1, <3>3 DEF Orderly, Fits, At, Runs, HasDeadline
    <3> QED BY <1>6, <1>7, <3>1, <3>2, <3>3, <3>4, <3>5
  <2> QED BY <1>3, <2>1, <2>2 DEF SentCounts
<1> QED BY <1>2, <1>3, <1>11, <1>12 DEF CountInv

\* Every step keeps the count.
LEMMA CountStep ==
    ASSUME TypeOK, CommitProtocol, RecordInv, UseInv, CountInv, [Next]_vars
    PROVE  CountInv'
<1>1. FedTypes /\ WorldTypes BY TypeParts
<1>2. ASSUME NEW d \in Drives, NEW ev \in Events, NEW conn \in BOOLEAN,
             NEW h \in HostFacts, NEW took \in BOOLEAN, NEW o \in Outputs,
             Stepped(d, ev, conn, h, took, o)
      PROVE  CountInv'
  BY <1>1, <1>2, SteppedCases, CountLive, CountEnded
<1>3. Unmoved /\ SameProgress /\ sent' = sent => CountInv' BY CountUnmoved
<1>4. ASSUME NEW d \in Drives, Sends(d) PROVE CountInv' BY <1>4, CountUnmoved DEF Sends
<1>5. ASSUME NEW d \in Drives, Lost(d) PROVE CountInv' BY <1>1, <1>5, CountLost
<1> QED BY <1>2, <1>3, <1>4, <1>5, OwnerSteps

\* What is in flight, and what the record says, counts the statements.
THEOREM CountInvariant == Spec => []CountInv
<1>1. Init => CountInv
  <2> SUFFICES ASSUME Init PROVE CountInv OBVIOUS
  <2>1. \A e \in Drives : flight[e].stage = "idle" BY DEF Init, Idling
  <2>2. applied = <<>> /\ sent = NotSent /\ loaded = FALSE BY DEF Init
  <2>3. Current.conn = "none" BY <2>2, FreshOrderly DEF Current
  <2> QED BY <2>1, <2>2, <2>3 DEF CountInv, PendingUse, Counted, Runs, SentCounts,
             InOrder, Awaits
<1>2. /\ TypeOK /\ CommitProtocol /\ RecordInv /\ UseInv /\ CountInv /\ [Next]_vars
      => CountInv'
  BY CountStep
<1> QED BY <1>1, <1>2, TypeCorrect, CommitProtocolHolds, RecordInvariant, UseInvariant,
           PTL DEF Spec

\* The database runs each statement once, in sequence, and a COMMIT covers
\* exactly the statements before its own sequence (CommitsWhatWasExecuted).
THEOREM CommitCoversExecuted == Spec => []CommitsWhatWasExecuted
<1>1. TypeOK /\ CountInv => CommitsWhatWasExecuted
  <2> SUFFICES ASSUME TypeOK, CountInv PROVE CommitsWhatWasExecuted OBVIOUS
  <2>1. applied \in Seq(Nat) /\ \A i \in 1..Len(applied) : applied[i] = i
    BY DEF TypeOK, CountInv, InOrder
  <2>2. applied = [i \in 1..Len(applied) |-> i] BY <2>1
  <2> QED BY <2>2 DEF CountInv, SentCounts, CommitsWhatWasExecuted
<1> QED BY <1>1, TypeCorrect, CountInvariant, PTL

(***************************************************************************)
(* A COMMIT was checked                                                    *)
(***************************************************************************)
\* The validator in flight is the one the work waits for.
AttachedValidator ==
    Runs(Current) =>
        \A e \in Drives : Awaits(e, "callValidator") =>
            /\ Current.work.task = "Validator"
            /\ flight[e].ev.id = Current.work.id /\ flight[e].arg = Current.work.check

\* How far the checks have got, by the work that goes on with them.
AllowedAll == changed => allowedBy = 1..Checks
Checking ==
    Runs(Current) =>
        /\ Current.rec.phase = "active" => allowedBy = {}
        /\ Current.work.task = "ValidatingPersist" =>
              Current.work.check = 1 /\ Checks >= 1 /\ allowedBy = {}
        /\ Current.work.task = "Validator" =>
              /\ Current.work.check \in 1..Checks
              /\ allowedBy = 1..(Current.work.check - 1)
        /\ HasDeferred(Current) =>
              /\ Current.deferred.check \in 1..Checks
              /\ Current.deferred.allowed => allowedBy = 1..Current.deferred.check
        /\ Current.work.task = "CommitBinding" =>
              \/ Current.work.check = 1 /\ allowedBy = {} /\ Checks >= 1
              \/ Current.work.check # 1 /\ AllowedAll
        /\ Current.work.task = "CommitPersist" => AllowedAll /\ vetted

\* A COMMIT on its way, or sent, was checked, and nothing checks any more.
CommitUnderway == \/ sent # NotSent
                  \/ \E e \in Drives : Awaits(e, "commit") /\ flight[e].had
CommitReady ==
    CommitUnderway => /\ \A e \in Drives : ~Awaits(e, "callValidator")
                      /\ AllowedAll /\ vetted

CheckInv == AttachedValidator /\ Checking /\ CommitReady

\* A COMMIT underway excludes an open connection and a name without a record.
LEMMA UnderwayFacts ==
    ASSUME CommitProtocol, RecordInv, CommitUnderway
    PROVE  Current.conn # "open" /\ \A e \in Drives : ~Awaits(e, "open")
<1>1. store.phase # "absent" BY AbsentUnsent DEF CommitUnderway
<1>2. \A e \in Drives : ~Awaits(e, "open") BY <1>1 DEF RecordInv, OpensOnce
<1>3. CASE sent # NotSent
  <2>1. CASE loaded
    BY <1>2, <1>3, <2>1 DEF CommitProtocol, SealedByCommit, CommitPossible, Sealed, Current
  <2>2. CASE ~loaded
    <3>1. Current = Fresh(store) BY <2>2 DEF Current
    <3> QED BY <1>2, <3>1, FreshOrderly
  <2> QED BY <1>2, <2>1, <2>2
<1>4. CASE \E e \in Drives : Awaits(e, "commit")
  BY <1>2, <1>4 DEF RecordInv, ClosesOnce
<1> QED BY <1>3, <1>4 DEF CommitUnderway

\* It stays checked, and no validator is called under it.
LEMMA OldReady ==
    ASSUME WorldTypes, CommitProtocol, RecordInv, UseInv, CountInv, CommitReady,
           NEW d \in Drives, NEW ev \in Events, Progressed(d, ev) \/ Lost(d),
           \A e \in Drives \ {d} : Lasts(e) \/ flight'[e] = flight[e],
           \/ sent' # NotSent
           \/ \E e \in Drives \ {d} : Awaits(e, "commit")' /\ flight'[e].had
    PROVE  /\ AllowedAll' /\ vetted' /\ Current.conn # "open"
           /\ \A e \in Drives \ {d} : ~Awaits(e, "callValidator")'
<1>1. \A e \in Drives \ {d} : flight'[e].stage = "effect" =>
         /\ flight'[e].had = flight[e].had
         /\ Awaits(e, "commit")' <=> Awaits(e, "commit")
         /\ Awaits(e, "callValidator")' <=> Awaits(e, "callValidator")
  BY LastsUses
<1>2. Same \/ Opens(d, ev) \/ RunsOne(d) BY Histories
<1>3. \/ sent # NotSent
      \/ \E e \in Drives \ {d} : Awaits(e, "commit") /\ flight[e].had
  BY <1>1, <1>2 DEF Same, Opens, RunsOne, Awaits
<1>4. CommitUnderway BY <1>3 DEF CommitUnderway
<1>5. Current.conn # "open" /\ \A e \in Drives : ~Awaits(e, "open")
  BY <1>4, UnderwayFacts
<1>6. Same
  <2>1. CASE sent # NotSent BY <2>1, HistoryKept
  <2>2. ASSUME NEW e \in Drives \ {d}, Awaits(e, "commit"), flight[e].had PROVE Same
    <3>1. UsesConnection(e) BY <2>2 DEF UsesConnection, Awaits
    <3> QED BY <3>1, HistoryKept
  <2> QED BY <1>3, <2>1, <2>2
<1>7. /\ \A e \in Drives : ~Awaits(e, "callValidator")
      /\ AllowedAll /\ vetted
  BY <1>4 DEF CommitReady
<1>8. allowedBy' = allowedBy /\ vetted'
  <2>1. CASE Lost(d) BY <1>7, <2>1 DEF Lost
  <2>2. CASE Progressed(d, ev) BY <1>5, <1>7, <2>2 DEF Progressed, SameProgress
  <2> QED BY <2>1, <2>2
<1>9. AllowedAll' BY <1>6, <1>7, <1>8 DEF AllowedAll, Same
<1>10. \A e \in Drives \ {d} : ~Awaits(e, "callValidator")' BY <1>1, <1>7 DEF Awaits
<1> QED BY <1>5, <1>8, <1>9, <1>10

\* The step that ends the state keeps this.
LEMMA CheckEnded ==
    ASSUME WorldTypes, CommitProtocol, RecordInv, UseInv, CountInv, CheckInv,
           NEW d \in Drives, NEW ev \in Events, NEW h \in HostFacts, Ended(d, ev, h)
    PROVE  CheckInv'
<1>1. /\ Current'.conn # "open" /\ Progressed(d, ev)
      /\ \A e \in Drives \ {d} : flight'[e] = flight[e]
      /\ ~Awaits(d, "callValidator")' /\ ~Awaits(d, "commit")'
  BY DEF Ended, Awaits
<1>2. AttachedValidator' /\ Checking' BY <1>1 DEF AttachedValidator, Checking, Runs
<1>3. CommitReady'
  <2> SUFFICES ASSUME CommitUnderway'
               PROVE  /\ \A e \in Drives : ~Awaits(e, "callValidator")'
                      /\ AllowedAll' /\ vetted'
    BY DEF CommitReady
  <2>1. \/ sent' # NotSent
        \/ \E e \in Drives \ {d} : Awaits(e, "commit")' /\ flight'[e].had
    BY <1>1 DEF CommitUnderway
  <2>2. /\ AllowedAll' /\ vetted'
        /\ \A e \in Drives \ {d} : ~Awaits(e, "callValidator")'
    BY <1>1, <2>1, OldReady DEF CheckInv
  <2> QED BY <1>1, <2>2
<1> QED BY <1>2, <1>3 DEF CheckInv

\* So does a step that starts no effect and runs no statement.
LEMMA CheckUnmoved ==
    ASSUME CheckInv, Unmoved, SameProgress,
           sent' = sent \/ \E d \in Drives : Awaits(d, "commit") /\ flight[d].had
    PROVE  CheckInv'
<1>1. \A e \in Drives : flight'[e].stage = "effect" =>
         /\ flight[e].stage = "effect" /\ flight'[e].ev = flight[e].ev
         /\ flight'[e].arg = flight[e].arg /\ flight'[e].had = flight[e].had
  BY LastsUses DEF Unmoved
<1>2. changed' = changed /\ allowedBy' = allowedBy /\ vetted' = vetted BY DEF SameProgress
<1>3. AllowedAll' <=> AllowedAll BY <1>2 DEF AllowedAll
<1>4. CommitUnderway' => CommitUnderway BY <1>1 DEF CommitUnderway, Awaits
<1>5. CommitReady' BY <1>1, <1>2, <1>3, <1>4 DEF CheckInv, CommitReady, Awaits
<1>6. AttachedValidator' /\ Checking'
  <2>1. CASE Current' = Current
    <3> HIDE DEF Current
    <3>1. AttachedValidator' BY <1>1, <2>1 DEF CheckInv, AttachedValidator, Awaits
    <3>2. Checking' BY <1>2, <1>3, <2>1 DEF CheckInv, Checking
    <3> QED BY <3>1, <3>2
  <2>2. CASE Current'.conn # "open"
    BY <2>2 DEF AttachedValidator, Checking, Runs
  <2> QED BY <2>1, <2>2 DEF Unmoved
<1> QED BY <1>5, <1>6 DEF CheckInv

\* And a statement whose outcome is lost: nothing of its transaction is checked.
LEMMA CheckLost ==
    ASSUME FedTypes, WorldTypes, CommitProtocol, RecordInv, UseInv, CountInv, CheckInv,
           NEW d \in Drives, Lost(d)
    PROVE  CheckInv'
<1>1. /\ Unmoved /\ flight'[d].stage # "effect" /\ sent' = sent
      /\ allowedBy' = allowedBy /\ vetted' = vetted
      /\ ~Awaits(d, "callValidator")' /\ ~Awaits(d, "commit")'
  BY DEF Lost, Awaits
<1>2. \A e \in Drives : Lasts(e) BY <1>1 DEF Unmoved
<1>3. NoEvent \in Events BY FlightTypes
<1>4. CommitReady'
  <2> SUFFICES ASSUME CommitUnderway'
               PROVE  /\ \A e \in Drives : ~Awaits(e, "callValidator")'
                      /\ AllowedAll' /\ vetted'
    BY DEF CommitReady
  <2>1. \/ sent' # NotSent
        \/ \E e \in Drives \ {d} : Awaits(e, "commit")' /\ flight'[e].had
    BY <1>1 DEF CommitUnderway
  <2>2. /\ AllowedAll' /\ vetted'
        /\ \A e \in Drives \ {d} : ~Awaits(e, "callValidator")'
    BY <1>2, <1>3, <2>1, OldReady DEF CheckInv
  <2> QED BY <1>1, <2>2
<1>5. CASE Same
  <2>1. SameProgress BY <1>1, <1>5 DEF Same, SameProgress
  <2> QED BY <1>1, <2>1, CheckUnmoved
<1>6. CASE RunsOne(d) /\ ~Same
  <2>1. ASSUME Current' = Current, Current.conn = "open"
        PROVE  AttachedValidator' /\ Checking'
    <3>1. Executes(Current, flight[d].ev.id, flight[d].arg)
      BY <1>6, <2>1 DEF UseInv, Attached, RunsOne
    <3>2. Consistent(Current) BY CurrentFacts
    <3>3. Current.work.task = "StatementExecute"
      BY <1>6, <3>1, <3>2, QueryChangesNothing DEF Executes, WorldTypes
    <3>4. \A e \in Drives : flight'[e].stage = "effect" =>
             /\ flight[e].stage = "effect" /\ flight'[e].ev = flight[e].ev
      BY <1>2, LastsUses
    <3> HIDE DEF Current
    <3>5. AttachedValidator' BY <2>1, <3>3, <3>4 DEF CheckInv, AttachedValidator, Awaits
    <3>6. Checking' BY <1>1, <2>1, <3>3 DEF CheckInv, Checking
    <3> QED BY <3>5, <3>6
  <2>2. CASE Current'.conn # "open"
    <3>1. AttachedValidator' /\ Checking' BY <2>2 DEF AttachedValidator, Checking, Runs
    <3> QED BY <1>4, <3>1 DEF CheckInv
  <2>3. CASE Current'.conn = "open" BY <1>1, <1>4, <2>1, <2>3 DEF CheckInv, Unmoved
  <2> QED BY <2>2, <2>3
<1> QED BY <1>5, <1>6, RanHistory DEF Lost, WorldTypes

\* A transaction that can commit after the step could before, or begins.
LEMMA RunsBefore ==
    ASSUME NEW d \in Drives, NEW ev \in Events, NEW conn, NEW h \in HostFacts,
           NEW o \in Outputs, GoesOn(d, ev, conn, h, o), Runs(o.m),
           ~AnsweredAs(Current, ev, "BeginOpen", "ok")
    PROVE  /\ Runs(Current)
           /\ o.m.rec.phase = "active" => Current.rec.phase = "active"
<1> DEFINE c == Current
<1>1. /\ RecordSteps(c, ev, o) /\ ConnSteps(c, ev, o) /\ Orderly(c, runtime)
      /\ ~AnsweredAs(c, ev, "BeginOpen", "ok")
  BY DEF GoesOn
<1> HIDE DEF c
<1>2. c.conn = "open" BY <1>1 DEF ConnSteps, Runs
<1>3. c.rec.phase \in HasDeadline
  BY <1>1, <1>2 DEF Orderly, Holds, RecordSteps, Runs, Terminal, HasDeadline
<1>4. o.m.rec.phase = "active" => c.rec.phase = "active"
  BY <1>1, <1>3 DEF RecordSteps, Leads, Endings, Terminal, HasDeadline
<1> QED BY <1>2, <1>3, <1>4 DEF c, Runs

\* What a step of such a transaction does to its checks.
LEMMA CheckHistory ==
    ASSUME WorldTypes, CommitProtocol, RecordInv, UseInv, AttachedValidator,
           NEW d \in Drives, NEW ev \in Events, NEW conn, NEW h \in HostFacts,
           NEW o \in Outputs, GoesOn(d, ev, conn, h, o), Runs(Current)
    PROVE  /\ \/ Answered(Current, ev) /\ Current.work.task = "StatementExecute"
              \/ changed' = changed
           /\ \/ Answered(Current, ev) /\ Current.work.task = "Validator"
              \/ allowedBy' = allowedBy /\ (vetted => vetted')
           /\ AnsweredAs(Current, ev, "Validator", "allow") =>
                 allowedBy' = allowedBy \cup {Current.work.check}
           /\ AnsweredAs(Current, ev, "CommitBinding", "ok") => vetted'
<1> DEFINE c == Current
<1>1. /\ c \in Machines /\ Heard(d, ev) /\ m.work = c.work /\ Progressed(d, ev)
      /\ c.conn = "open"
  BY DEF GoesOn, Runs
<1>2. ~Awaits(d, "open") BY <1>1 DEF RecordInv, ClosesOnce
<1>3. Same \/ RunsOne(d) BY <1>1, <1>2, Histories DEF Opens
<1>4. RunsOne(d) => Same \/ (Answered(c, ev) /\ c.work.task = "StatementExecute")
  BY <1>1, StatementRan
<1>5. Awaits(d, "callValidator") => /\ c.work.task = "Validator"
                                    /\ flight[d].ev.id = c.work.id
                                    /\ flight[d].arg = c.work.check
  BY DEF AttachedValidator
<1>6. Answered(c, ev) =>
         Awaits(d, AwaitedBy(c.work.task)) /\ flight[d].ev.id = c.work.id
  BY <1>1, AnsweredFacts
<1> HIDE DEF c
<1>7. (Answered(c, ev) /\ c.work.task = "StatementExecute") \/ changed' = changed
  BY <1>3, <1>4 DEF Same
<1>8. Awaits(d, "callValidator") => Answered(c, ev) /\ c.work.task = "Validator"
  BY <1>1, <1>5, HeardOutcome, EffectNames, AwaitedEffects DEF Answered, HasWork
<1>9. \/ Answered(c, ev) /\ c.work.task = "Validator"
      \/ allowedBy' = allowedBy /\ (vetted => vetted')
  BY <1>1, <1>2, <1>8 DEF Progressed, SameProgress
<1>10. AnsweredAs(c, ev, "Validator", "allow") => allowedBy' = allowedBy \cup {c.work.check}
  <2> SUFFICES ASSUME AnsweredAs(c, ev, "Validator", "allow")
               PROVE  allowedBy' = allowedBy \cup {c.work.check}
    OBVIOUS
  <2>1. /\ Awaits(d, "callValidator") /\ ev.result = "allow"
        /\ ev.type = "callValidator"
    BY <1>6, AwaitedEffects DEF AnsweredAs, Answered
  <2> QED BY <1>1, <1>5, <2>1 DEF Progressed, Awaits
<1>11. AnsweredAs(c, ev, "CommitBinding", "ok") => vetted'
  <2> SUFFICES ASSUME AnsweredAs(c, ev, "CommitBinding", "ok") PROVE vetted' OBVIOUS
  <2>1. /\ Awaits(d, "checkBinding") /\ ev.result = "ok" /\ c.work.task = "CommitBinding"
        /\ ev.type = "checkBinding" /\ c.work.id = flight[d].ev.id
    BY <1>6, AwaitedEffects DEF AnsweredAs, Answered
  <2> QED BY <1>1, <2>1 DEF Progressed, Awaits
<1> QED BY <1>7, <1>9, <1>10, <1>11 DEF c

\* One more check allowed.
LEMMA NextCheck ==
    ASSUME NEW n \in Nat, n >= 1
    PROVE  (1..(n - 1)) \cup {n} = 1..n
OBVIOUS

\* The checks of a transaction that begins.
LEMMA CheckBegins ==
    ASSUME RecordInv, NEW d \in Drives, NEW ev \in Events, NEW conn,
           NEW h \in HostFacts, NEW o \in Outputs, GoesOn(d, ev, conn, h, o),
           Runs(o.m), AnsweredAs(Current, ev, "BeginOpen", "ok")
    PROVE  /\ allowedBy' = {} /\ o.m.work.task = "BeginPersist" /\ ~HasDeferred(o.m)
           /\ d = "client" /\ store.phase = "absent"
<1> DEFINE c == Current
<1>1. /\ c \in Machines /\ Consistent(c) /\ Heard(d, ev) /\ Progressed(d, ev)
      /\ RecordSteps(c, ev, o) /\ CheckSteps(c, ev, o)
      /\ AnsweredAs(c, ev, "BeginOpen", "ok")
  BY DEF GoesOn
<1>2. /\ Awaits(d, AwaitedBy(c.work.task)) /\ d = "client"
      /\ store.phase = "absent" /\ c.rec.phase = "absent"
  BY <1>1, AnsweredFacts DEF AnsweredAs, BeginTasks
<1> HIDE DEF c
<1>3. Awaits(d, "open") /\ ev.type = "open" /\ ev.result = "ok"
  BY <1>1, <1>2, AwaitedEffects DEF AnsweredAs, Answered
<1>4. allowedBy' = {} BY <1>1, <1>3 DEF Progressed, Awaits
<1>5. o.m.work.task = "BeginPersist"
  BY <1>1, <1>2 DEF RecordSteps, Leads, Runs, HasDeadline, Terminal
<1>6. ~HasDeferred(o.m)
  BY <1>1 DEF CheckSteps, AnsweredAs, Answered, Consistent, HasDeferred
<1> QED BY <1>2, <1>4, <1>5, <1>6

\* A step of the machine goes on with the checks in order.
LEMMA CheckingLive ==
    ASSUME WorldTypes, CommitProtocol, RecordInv, UseInv, CountInv, CheckInv,
           NEW d \in Drives, NEW ev \in Events, NEW conn, NEW h \in HostFacts,
           NEW o \in Outputs, GoesOn(d, ev, conn, h, o), Runs(o.m),
           ~AnsweredAs(Current, ev, "BeginOpen", "ok")
    PROVE  /\ o.m.rec.phase = "active" => allowedBy' = {}
           /\ o.m.work.task = "ValidatingPersist" =>
                 o.m.work.check = 1 /\ Checks >= 1 /\ allowedBy' = {}
           /\ o.m.work.task = "Validator" =>
                 /\ o.m.work.check \in 1..Checks
                 /\ allowedBy' = 1..(o.m.work.check - 1)
           /\ HasDeferred(o.m) =>
                 /\ o.m.deferred.check \in 1..Checks
                 /\ o.m.deferred.allowed => allowedBy' = 1..o.m.deferred.check
           /\ o.m.work.task = "CommitBinding" =>
                 \/ o.m.work.check = 1 /\ allowedBy' = {} /\ Checks >= 1
                 \/ o.m.work.check # 1 /\ AllowedAll'
           /\ o.m.work.task = "CommitPersist" => AllowedAll' /\ vetted'
<1> DEFINE c == Current
<1>1. /\ c \in Machines /\ o.m \in Machines /\ Consistent(c) /\ Orderly(c, runtime)
      /\ CheckSteps(c, ev, o)
  BY DEF GoesOn
<1>2. Runs(c) /\ (o.m.rec.phase = "active" => c.rec.phase = "active")
  BY RunsBefore
<1>3. /\ (Answered(c, ev) /\ c.work.task = "StatementExecute") \/ changed' = changed
      /\ \/ Answered(c, ev) /\ c.work.task = "Validator"
         \/ allowedBy' = allowedBy /\ (vetted => vetted')
      /\ AnsweredAs(c, ev, "Validator", "allow") =>
            allowedBy' = allowedBy \cup {c.work.check}
      /\ AnsweredAs(c, ev, "CommitBinding", "ok") => vetted'
  BY <1>2, CheckHistory DEF CheckInv
<1>4. /\ c.rec.phase = "active" => allowedBy = {}
      /\ c.work.task = "ValidatingPersist" =>
            c.work.check = 1 /\ Checks >= 1 /\ allowedBy = {}
      /\ c.work.task = "Validator" =>
            c.work.check \in 1..Checks /\ allowedBy = 1..(c.work.check - 1)
      /\ HasDeferred(c) =>
            /\ c.deferred.check \in 1..Checks
            /\ c.deferred.allowed => allowedBy = 1..c.deferred.check
      /\ c.work.task = "CommitBinding" =>
            \/ c.work.check = 1 /\ allowedBy = {} /\ Checks >= 1
            \/ c.work.check # 1 /\ AllowedAll
      /\ c.work.task = "CommitPersist" => AllowedAll /\ vetted
  BY <1>2 DEF CheckInv, Checking
<1>5. c.work.task # "StatementExecute" /\ changed => c.rec.dirty
  BY <1>2 DEF CountInv, Counted, Orphan
<1> HIDE DEF c
<1>6. /\ Checks \in Nat /\ c.work.check \in Nat /\ c.deferred.check \in Nat
      /\ c.rec.dirty \in BOOLEAN
  BY <1>1, MachineFields, WorkFields, ConstantsAssumption DEF Records
<1>7. HasDeferred(c) => ~Answered(c, ev) BY <1>1 DEF Consistent, Answered
<1>8. \A check \in Nat : Verdicted(c, ev, check) =>
         /\ check \in 1..Checks /\ allowedBy' = 1..check /\ changed' = changed
  <2> SUFFICES ASSUME NEW check \in Nat, Verdicted(c, ev, check)
               PROVE  /\ check \in 1..Checks /\ allowedBy' = 1..check
                      /\ changed' = changed
    OBVIOUS
  <2>1. CASE AnsweredAs(c, ev, "Validator", "allow") /\ c.work.check = check
    <3>1. /\ c.work.task = "Validator" /\ allowedBy = 1..(check - 1)
          /\ check \in 1..Checks /\ changed' = changed
      BY <1>3, <1>4, <2>1 DEF AnsweredAs
    <3>2. allowedBy' = (1..(check - 1)) \cup {check} BY <1>3, <2>1, <3>1
    <3> QED BY <1>6, <3>1, <3>2, NextCheck
  <2>2. CASE HasDeferred(c) /\ c.deferred.allowed /\ c.deferred.check = check
    BY <1>3, <1>4, <1>7, <2>2
  <2> QED BY <2>1, <2>2 DEF Verdicted
<1>9. o.m.rec.phase = "active" => allowedBy' = {}
  BY <1>1, <1>2, <1>3, <1>4 DEF Orderly, Fits, At
<1>10. HasDeferred(o.m) =>
          /\ o.m.deferred.check \in 1..Checks
          /\ o.m.deferred.allowed => allowedBy' = 1..o.m.deferred.check
  <2> SUFFICES ASSUME HasDeferred(o.m)
               PROVE  /\ o.m.deferred.check \in 1..Checks
                      /\ o.m.deferred.allowed => allowedBy' = 1..o.m.deferred.check
    OBVIOUS
  <2>1. CASE o.m.deferred = c.deferred
    BY <1>3, <1>4, <1>7, <2>1 DEF HasDeferred
  <2>2. CASE /\ Answered(c, ev) /\ c.work.task = "Validator"
             /\ o.m.deferred.check = c.work.check
             /\ o.m.deferred.allowed = (ev.result = "allow")
    <3>1. c.work.check \in 1..Checks BY <1>4, <2>2
    <3>2. ev.result = "allow" => Verdicted(c, ev, c.work.check)
      BY <2>2 DEF Verdicted, AnsweredAs
    <3> QED BY <1>6, <1>8, <2>2, <3>1, <3>2
  <2> QED BY <1>1, <2>1, <2>2 DEF CheckSteps
<1>11. CASE o.m.work = c.work /\ ~Answered(c, ev)
  <2>1. changed' = changed /\ allowedBy' = allowedBy /\ (vetted => vetted')
    BY <1>3, <1>11
  <2>2. AllowedAll => AllowedAll' BY <2>1 DEF AllowedAll
  <2> QED BY <1>4, <1>9, <1>10, <1>11, <2>1, <2>2
<1>12. CASE CheckMoves(c, ev, o)
  <2>1. o.m.work.task = "ValidatingPersist" =>
           o.m.work.check = 1 /\ Checks >= 1 /\ allowedBy' = {}
    BY <1>3, <1>4, <1>6, <1>12 DEF CheckMoves, AnsweredAs, Triggered
  <2>2. o.m.work.task = "Validator" =>
           o.m.work.check \in 1..Checks /\ allowedBy' = 1..(o.m.work.check - 1)
    <3> SUFFICES ASSUME o.m.work.task = "Validator"
                 PROVE  /\ o.m.work.check \in 1..Checks
                        /\ allowedBy' = 1..(o.m.work.check - 1)
      OBVIOUS
    <3>1. CASE AnsweredAs(c, ev, "ValidatingPersist", "ok") /\ o.m.work.check = c.work.check
      <4>1. c.work.check = 1 /\ Checks >= 1 /\ allowedBy' = {}
        BY <1>3, <1>4, <3>1 DEF AnsweredAs
      <4>2. o.m.work.check = 1 BY <3>1, <4>1
      <4> QED BY <1>6, <4>1, <4>2
    <3>2. ASSUME NEW check \in Nat, Verdicted(c, ev, check), check < Checks,
                 o.m.work.check = check + 1
          PROVE  /\ o.m.work.check \in 1..Checks
                 /\ allowedBy' = 1..(o.m.work.check - 1)
      <4>1. allowedBy' = 1..check BY <1>8, <3>2
      <4>2. o.m.work.check - 1 = check /\ check + 1 \in 1..Checks BY <1>6, <3>2
      <4> QED BY <3>2, <4>1, <4>2
    <3> QED BY <1>12, <3>1, <3>2 DEF CheckMoves
  <2>3. o.m.work.task = "CommitBinding" =>
           \/ o.m.work.check = 1 /\ allowedBy' = {} /\ Checks >= 1
           \/ o.m.work.check # 1 /\ AllowedAll'
    <3> SUFFICES ASSUME o.m.work.task = "CommitBinding"
                 PROVE  \/ o.m.work.check = 1 /\ allowedBy' = {} /\ Checks >= 1
                        \/ o.m.work.check # 1 /\ AllowedAll'
      OBVIOUS
    <3>1. CASE /\ c.rec.phase = "active" /\ ~HasWork(c)
               /\ o.m.work.check = IF Triggered(c.rec) THEN 1 ELSE 0
      <4>1. /\ allowedBy' = {} /\ changed' = changed /\ c.work.task = "none"
        BY <1>3, <1>4, <3>1 DEF HasWork
      <4>2. CASE Triggered(c.rec) BY <1>6, <3>1, <4>1, <4>2 DEF Triggered
      <4>3. CASE ~Triggered(c.rec)
        <5>1. changed' => Checks = 0 BY <1>5, <1>6, <4>1, <4>3 DEF Triggered
        <5>2. AllowedAll' BY <4>1, <5>1 DEF AllowedAll
        <5> QED BY <3>1, <4>3, <5>2
      <4> QED BY <4>2, <4>3
    <3>2. ASSUME NEW check \in Nat, Verdicted(c, ev, check), ~(check < Checks),
                 o.m.work.check = 0
          PROVE  o.m.work.check # 1 /\ AllowedAll'
      <4>1. check = Checks /\ allowedBy' = 1..check BY <1>6, <1>8, <3>2
      <4> QED BY <3>2, <4>1 DEF AllowedAll
    <3> QED BY <1>12, <3>1, <3>2 DEF CheckMoves
  <2>4. o.m.work.task = "CommitPersist" => AllowedAll' /\ vetted'
    BY <1>3, <1>4, <1>12 DEF CheckMoves, AnsweredAs, AllowedAll
  <2> QED BY <1>9, <1>10, <2>1, <2>2, <2>3, <2>4
<1> QED BY <1>1, <1>11, <1>12 DEF CheckSteps

\* The validator a step leaves in flight is the one the work waits for.
LEMMA ValidatorLive ==
    ASSUME RecordInv, UseInv, AttachedValidator, NEW d \in Drives, NEW ev \in Events,
           NEW conn, NEW h \in HostFacts, NEW o \in Outputs, GoesOn(d, ev, conn, h, o)
    PROVE  AttachedValidator'
<1> DEFINE c == Current
<1>1. /\ c \in Machines /\ Heard(d, ev) /\ UseSteps(c, h, ev, o) /\ CheckSteps(c, ev, o)
      /\ Current' = o.m /\ \A e \in Drives \ {d} : flight'[e] = flight[e]
      /\ o.await.type = "none" => flight'[d].stage = "idle"
      /\ o.await.type # "none" =>
            /\ flight'[d].ev.type = o.await.type
            /\ flight'[d].ev.id = h.id /\ flight'[d].arg = o.await.arg
  BY DEF GoesOn
<1> SUFFICES ASSUME Runs(o.m), NEW e \in Drives, Awaits(e, "callValidator")'
             PROVE  /\ o.m.work.task = "Validator"
                    /\ flight'[e].ev.id = o.m.work.id /\ flight'[e].arg = o.m.work.check
  BY <1>1 DEF AttachedValidator
<1>2. CASE e = d
  <2> HIDE DEF c
  <2>1. o.await.type = "callValidator" BY <1>1, <1>2 DEF Awaits
  <2> QED BY <1>1, <1>2, <2>1 DEF UseSteps
<1>3. CASE e # d
  <2>1. flight'[e] = flight[e] /\ Awaits(e, "callValidator") BY <1>1, <1>3 DEF Awaits
  <2>2. ~AnsweredAs(c, ev, "BeginOpen", "ok")
    <3> SUFFICES ASSUME AnsweredAs(c, ev, "BeginOpen", "ok") PROVE FALSE OBVIOUS
    <3>1. d = "client" /\ store.phase = "absent" BY CheckBegins
    <3> QED BY <1>3, <2>1, <3>1 DEF RecordInv, BeginsOnClient, Awaits, UsesOpen
  <2>3. Runs(c) BY <2>2, RunsBefore
  <2>4. /\ c.work.task = "Validator" /\ flight[e].ev.id = c.work.id
        /\ flight[e].arg = c.work.check
    BY <2>1, <2>3 DEF AttachedValidator
  <2>5. ~Answered(c, ev)
    BY <1>1, <1>3, <2>1, <2>4, AnsweredFacts DEF UseInv, UniqueIds, Awaits
  <2> HIDE DEF c
  <2>6. o.m.work = c.work BY <1>1, <2>4, <2>5 DEF CheckSteps
  <2> QED BY <2>1, <2>4, <2>6
<1> QED BY <1>2, <1>3

\* A COMMIT is asked for once it is checked.
LEMMA ReadyLive ==
    ASSUME WorldTypes, CommitProtocol, RecordInv, UseInv, CountInv, CheckInv,
           NEW d \in Drives, NEW ev \in Events, NEW conn, NEW h \in HostFacts,
           NEW o \in Outputs, GoesOn(d, ev, conn, h, o)
    PROVE  CommitReady'
<1> DEFINE c == Current
           type == o.await.type
<1>1. /\ c \in Machines /\ Heard(d, ev) /\ Orderly(c, runtime)
      /\ ConnSteps(c, ev, o) /\ UseSteps(c, h, ev, o) /\ Progressed(d, ev)
      /\ \A e \in Drives \ {d} : flight'[e] = flight[e]
      /\ type = "none" => flight'[d].stage = "idle"
      /\ type # "none" => flight'[d].ev.type = type
  BY DEF GoesOn
<1>2. \A t \in EffectTypes : Awaits(d, t)' => type = t
  BY <1>1 DEF Awaits, EffectTypes
<1> SUFFICES ASSUME CommitUnderway'
             PROVE  /\ \A e \in Drives : ~Awaits(e, "callValidator")'
                    /\ AllowedAll' /\ vetted'
  BY DEF CommitReady
<1>3. CASE \/ sent' # NotSent
           \/ \E e \in Drives \ {d} : Awaits(e, "commit")' /\ flight'[e].had
  <2>1. /\ AllowedAll' /\ vetted' /\ c.conn # "open"
        /\ \A e \in Drives \ {d} : ~Awaits(e, "callValidator")'
    BY <1>1, <1>3, OldReady DEF CheckInv
  <2> HIDE DEF c
  <2>2. ~Awaits(d, "callValidator")' BY <1>1, <1>2, <2>1, EffectNames DEF ConnSteps
  <2> QED BY <2>1, <2>2
<1>4. CASE Awaits(d, "commit")'
  <2>1. type = "commit" BY <1>2, <1>4, EffectNames
  <2>2. AnsweredAs(c, ev, "CommitPersist", "ok") BY <1>1, <2>1 DEF UseSteps
  <2>3. Awaits(d, AwaitedBy(c.work.task)) BY <1>1, <2>2, AnsweredFacts DEF AnsweredAs
  <2>4. Runs(c) /\ c.work.task = "CommitPersist"
    <3> HIDE DEF c
    <3> QED BY <1>1, <2>2 DEF AnsweredAs, Orderly, Fits, At, Runs, HasDeadline
  <2>5. AllowedAll /\ vetted BY <2>4 DEF CheckInv, Checking
  <2>6. \A e \in Drives : ~Awaits(e, "callValidator") BY <2>4 DEF CheckInv, AttachedValidator
  <2> HIDE DEF c
  <2>7. Awaits(d, "persist") BY <2>3, <2>4, AwaitedEffects
  <2>8. SameProgress BY <1>1, <2>7 DEF Progressed, Awaits
  <2>9. AllowedAll' /\ vetted' BY <2>5, <2>8 DEF AllowedAll, SameProgress
  <2>10. \A e \in Drives : ~Awaits(e, "callValidator")'
    <3>1. ~Awaits(d, "callValidator")' BY <1>4 DEF Awaits
    <3>2. \A e \in Drives \ {d} : ~Awaits(e, "callValidator")' BY <1>1, <2>6 DEF Awaits
    <3> QED BY <3>1, <3>2
  <2> QED BY <2>9, <2>10
<1> QED BY <1>3, <1>4 DEF CommitUnderway

\* A step of the machine keeps the checks.
LEMMA CheckLive ==
    ASSUME WorldTypes, CommitProtocol, RecordInv, UseInv, CountInv, CheckInv,
           NEW d \in Drives, NEW ev \in Events, NEW conn, NEW h \in HostFacts,
           NEW o \in Outputs, GoesOn(d, ev, conn, h, o)
    PROVE  CheckInv'
<1>1. AttachedValidator' BY ValidatorLive DEF CheckInv
<1>2. CommitReady' BY ReadyLive
<1>3. Current' = o.m BY DEF GoesOn
<1>4. Checking'
  <2> SUFFICES ASSUME Runs(o.m) PROVE Checking' BY <1>3 DEF Checking
  <2>1. CASE AnsweredAs(Current, ev, "BeginOpen", "ok")
    <3>1. allowedBy' = {} /\ o.m.work.task = "BeginPersist" /\ ~HasDeferred(o.m)
      BY <2>1, CheckBegins
    <3> QED BY <1>3, <3>1 DEF Checking
  <2>2. CASE ~AnsweredAs(Current, ev, "BeginOpen", "ok")
    <3>1. /\ o.m.rec.phase = "active" => allowedBy' = {}
          /\ o.m.work.task = "ValidatingPersist" =>
                o.m.work.check = 1 /\ Checks >= 1 /\ allowedBy' = {}
          /\ o.m.work.task = "Validator" =>
                /\ o.m.work.check \in 1..Checks
                /\ allowedBy' = 1..(o.m.work.check - 1)
          /\ HasDeferred(o.m) =>
                /\ o.m.deferred.check \in 1..Checks
                /\ o.m.deferred.allowed => allowedBy' = 1..o.m.deferred.check
          /\ o.m.work.task = "CommitBinding" =>
                \/ o.m.work.check = 1 /\ allowedBy' = {} /\ Checks >= 1
                \/ o.m.work.check # 1 /\ AllowedAll'
          /\ o.m.work.task = "CommitPersist" => AllowedAll' /\ vetted'
      BY <2>2, CheckingLive
    <3> QED BY <1>3, <3>1 DEF Checking
  <2> QED BY <2>1, <2>2
<1> QED BY <1>1, <1>2, <1>4 DEF CheckInv

\* Every step keeps the checks.
LEMMA CheckStep ==
    ASSUME TypeOK, CommitProtocol, RecordInv, UseInv, CountInv, CheckInv, [Next]_vars
    PROVE  CheckInv'
<1>1. FedTypes /\ WorldTypes BY TypeParts
<1>2. ASSUME NEW d \in Drives, NEW ev \in Events, NEW conn \in BOOLEAN,
             NEW h \in HostFacts, NEW took \in BOOLEAN, NEW o \in Outputs,
             Stepped(d, ev, conn, h, took, o)
      PROVE  CheckInv'
  BY <1>1, <1>2, SteppedCases, CheckLive, CheckEnded
<1>3. Unmoved /\ SameProgress /\ sent' = sent => CheckInv' BY CheckUnmoved
<1>4. ASSUME NEW d \in Drives, Sends(d) PROVE CheckInv' BY <1>4, CheckUnmoved DEF Sends
<1>5. ASSUME NEW d \in Drives, Lost(d) PROVE CheckInv' BY <1>1, <1>5, CheckLost
<1> QED BY <1>2, <1>3, <1>4, <1>5, OwnerSteps

\* The checks go on in order, and a COMMIT underway has passed them.
THEOREM CheckInvariant == Spec => []CheckInv
<1>1. Init => CheckInv
  <2> SUFFICES ASSUME Init PROVE CheckInv OBVIOUS
  <2>1. \A e \in Drives : flight[e].stage = "idle" BY DEF Init, Idling
  <2>2. sent = NotSent /\ loaded = FALSE BY DEF Init
  <2>3. Current.conn = "none" BY <2>2, FreshOrderly DEF Current
  <2> QED BY <2>1, <2>2, <2>3 DEF CheckInv, AttachedValidator, Checking, Runs,
             CommitReady, CommitUnderway, Awaits
<1>2. /\ TypeOK /\ CommitProtocol /\ RecordInv /\ UseInv /\ CountInv /\ CheckInv
      /\ [Next]_vars
      => CheckInv'
  BY CheckStep
<1> QED BY <1>1, <1>2, TypeCorrect, CommitProtocolHolds, RecordInvariant, UseInvariant,
           CountInvariant, PTL DEF Spec

\* COMMIT is handed to the database only after every check that the changed
\* rows trigger was allowed, and the binding was confirmed after the last of
\* them (CommitOnlyChecked).
THEOREM CommitIsChecked == Spec => []CommitOnlyChecked
<1>1. CheckInv => CommitOnlyChecked
  BY DEF CheckInv, CommitReady, CommitUnderway, CommitOnlyChecked, AllowedAll
<1> QED BY <1>1, CheckInvariant, PTL
===============================================================================
