------------------------ MODULE TransactionOwnerProofs ------------------------
(***************************************************************************)
(* Theorems about the owner, for every set of snapshots, callers, commands *)
(* and queries, any number of checks and statements, and any number of     *)
(* faults and losses of the owner.                                         *)
(***************************************************************************)
EXTENDS TransactionOwner, StepMachineProofs

(***************************************************************************)
(* Type correctness                                                        *)
(***************************************************************************)
\* The part of TypeOK that a step of the machine changes.
FedTypes ==
    /\ m \in Machines
    /\ store \in Records \cup {Unreadable}
    /\ loaded \in BOOLEAN /\ link \in BOOLEAN /\ due \in BOOLEAN
    /\ alarm \in BOOLEAN /\ orphaned \in BOOLEAN
    /\ runtime \in Snapshots
    /\ faults \in Nat /\ crashes \in Nat
    /\ flight \in [Drives -> Flights]
    /\ waiter \in [ServedLanes -> Commands]
    /\ told \subseteq [seq : Nat, auth : PrincipalOrNone,
                       answer : {"committed", "rejected"}]

\* The other part: the database and the history it alone decides.
WorldTypes ==
    /\ changed \in BOOLEAN /\ vetted \in BOOLEAN
    /\ db \in {"none", "open", "committed", "aborted"}
    /\ sent \in [seq : Nat, auth : PrincipalOrNone]
    /\ applied \in Seq(Nat)
    /\ allowedBy \subseteq Nat

\* The two parts are the whole.
LEMMA TypeParts == TypeOK <=> FedTypes /\ WorldTypes
BY DEF TypeOK, FedTypes, WorldTypes

\* Unreadable content is no record, and holds no caller.
LEMMA UnreadableFacts == Unreadable \notin Records /\ Unreadable.auth \in PrincipalOrNone
BY DEF Unreadable, NoRec, Records, Phases, HasDeadline, Terminal, PrincipalOrNone

\* The events and the drives that await nothing.
LEMMA FlightTypes ==
    /\ NoEvent \in Events /\ TimerEvent \in Events
    /\ \A cmd \in Commands : ForwardedEvent(cmd) \in Events
    /\ Idling \in Flights
    /\ \A ev \in Events, dying \in BOOLEAN : Ready(ev, dying) \in Flights
<1>1. NoEvent \in Events
  BY EmptyTypes DEF NoEvent, Events, Results
<1>2. TimerEvent \in Events /\ \A cmd \in Commands : ForwardedEvent(cmd) \in Events
  BY <1>1 DEF TimerEvent, ForwardedEvent, Events
<1>3. Idling \in Flights
  BY <1>1 DEF Idling, Flights
<1>4. \A ev \in Events, dying \in BOOLEAN : Ready(ev, dying) \in Flights
  BY <1>3 DEF Ready, Flights
<1> QED BY <1>1, <1>2, <1>3, <1>4

\* A drive that awaits an effect.
LEMMA AwaitingType ==
    ASSUME NEW effect \in Effects, effect.type # "none", NEW took \in BOOLEAN,
           NEW had \in BOOLEAN, NEW dying \in BOOLEAN
    PROVE  Awaiting(effect, took, had, dying) \in Flights
<1> DEFINE ev == [NoEvent EXCEPT !.type = effect.type, !.id = effect.id]
<1>1. ev \in Events BY FlightTypes DEF Events, Effects
<1> HIDE DEF ev
<1>2. Awaiting(effect, took, had, dying) =
        [stage |-> "effect", arg |-> effect.arg, took |-> took, had |-> had,
         dying |-> dying, ev |-> ev]
  BY DEF Awaiting, ev
<1> QED BY <1>1, <1>2 DEF Flights, Effects

\* The outcome of the effect a drive awaits.
LEMMA OutcomeOfType ==
    ASSUME FedTypes, NEW d \in Drives, NEW result \in Results
    PROVE  OutcomeOf(d, result) \in Events /\ flight[d].ev \in Events
<1>1. flight[d].ev \in Events BY DEF FedTypes, Flights
<1> QED BY <1>1 DEF OutcomeOf, Events

\* The state a step starts from, and its output.
LEMMA RunType ==
    ASSUME FedTypes, NEW h \in HostFacts, NEW ev \in Events
    PROVE  Run(h, ev) \in Outputs
<1>1. CASE ~loaded /\ store = Unreadable
  BY <1>1, DiscardType, FinishOutputType DEF Run
<1>2. CASE ~(~loaded /\ store = Unreadable)
  <2>1. Current \in Machines
    BY <1>2, FreshType DEF Current, FedTypes
  <2> QED BY <1>2, <2>1, StepType DEF Run
<1> QED BY <1>1, <1>2

\* What a caller learns for certain.
LEMMA VerdictsType ==
    ASSUME NEW cmd \in Commands, NEW reply
    PROVE  Verdicts(cmd, reply) \subseteq
             [seq : Nat, auth : PrincipalOrNone, answer : {"committed", "rejected"}]
BY DEF Verdicts, Commands

\* A step of a drive keeps the types of what it changes.
LEMMA FeedType ==
    ASSUME FedTypes, NEW d \in Drives, NEW ev \in Events, NEW conn \in BOOLEAN,
           NEW fails, Feed(d, ev, conn, fails)
    PROVE  FedTypes'
<1>1. PICK late \in {due, TRUE}, took \in BOOLEAN, id \in NextIds :
      \E o \in {Run([due |-> due, late |-> late, snap |-> runtime, id |-> id], ev)} :
        LET type == o.await.type
            ends == type = "none"
            drop == o.reset \/ (ends /\ flight[d].dying)
            write == type \in {"persist", "setTimer"}
        IN  /\ ~took => write
            /\ FaultIf(fails \/ ~took)
            /\ m' = IF drop THEN Fresh(NoRec) ELSE o.m
            /\ loaded' = ~drop
            /\ link' = (conn /\ ~drop /\ ~Idle(o.m) /\ type # "open")
            /\ store' = IF type = "persist" /\ took THEN o.m.rec ELSE store
            /\ alarm' = ((alarm \/ (type = "setTimer" /\ took)) /\ type # "open")
            /\ due' = (due /\ type # "open")
            /\ flight' = [flight EXCEPT ![d] =
                  IF ends THEN Idling
                  ELSE Awaiting(o.await, took /\ write, conn, flight[d].dying)]
            /\ Answer(o, d, ends)
            /\ UNCHANGED <<runtime, crashes>>
  BY DEF Feed
<1> DEFINE h == [due |-> due, late |-> late, snap |-> runtime, id |-> id]
           o == Run(h, ev)
           type == o.await.type
           ends == type = "none"
           drop == o.reset \/ (ends /\ flight[d].dying)
           write == type \in {"persist", "setTimer"}
<1>2. /\ FaultIf(fails \/ ~took)
      /\ m' = IF drop THEN Fresh(NoRec) ELSE o.m
      /\ loaded' = ~drop
      /\ link' = (conn /\ ~drop /\ ~Idle(o.m) /\ type # "open")
      /\ store' = IF type = "persist" /\ took THEN o.m.rec ELSE store
      /\ alarm' = ((alarm \/ (type = "setTimer" /\ took)) /\ type # "open")
      /\ due' = (due /\ type # "open")
      /\ flight' = [flight EXCEPT ![d] =
            IF ends THEN Idling
            ELSE Awaiting(o.await, took /\ write, conn, flight[d].dying)]
      /\ Answer(o, d, ends)
      /\ UNCHANGED <<runtime, crashes>>
  BY <1>1
<1>3. h \in HostFacts
  <2>1. id \in Nat BY DEF NextIds, Ids
  <2>2. late \in BOOLEAN BY DEF FedTypes
  <2> QED BY <2>1, <2>2 DEF HostFacts, FedTypes
<1> HIDE DEF h
<1>4. o \in Outputs BY <1>3, RunType
<1> HIDE DEF o
<1>5. /\ o.m \in Machines /\ o.m.rec \in Records /\ o.client \in Replies
      /\ o.await \in Effects
  BY <1>4 DEF Outputs, Machines
<1>6. m' \in Machines BY <1>2, <1>5, EmptyTypes, FreshType
<1>7. store' \in Records \cup {Unreadable} BY <1>2, <1>5 DEF FedTypes
<1>8. /\ loaded' \in BOOLEAN /\ link' \in BOOLEAN /\ due' \in BOOLEAN
      /\ alarm' \in BOOLEAN
  BY <1>2
<1>9. faults' \in Nat /\ crashes' \in Nat /\ runtime' \in Snapshots
  BY <1>2 DEF FaultIf, FedTypes
<1>10. flight' \in [Drives -> Flights]
  <2>1. ASSUME ~ends
        PROVE  Awaiting(o.await, took /\ write, conn, flight[d].dying) \in Flights
    <3>1. (took /\ write) \in BOOLEAN OBVIOUS
    <3>2. flight[d].dying \in BOOLEAN BY DEF FedTypes, Flights
    <3> DEFINE wrote == took /\ write
    <3> HIDE DEF wrote
    <3>3. wrote \in BOOLEAN BY <3>1 DEF wrote
    <3>4. Awaiting(o.await, wrote, conn, flight[d].dying) \in Flights
      BY <1>5, <2>1, <3>2, <3>3, AwaitingType
    <3> QED BY <3>4 DEF wrote
  <2> HIDE DEF ends, write
  <2> QED BY <1>2, <2>1, FlightTypes DEF FedTypes
<1>11. /\ waiter' \in [ServedLanes -> Commands]
       /\ orphaned' \in BOOLEAN
       /\ told' \subseteq [seq : Nat, auth : PrincipalOrNone,
                           answer : {"committed", "rejected"}]
  <2>1. waiter["client"] \in Commands BY DEF FedTypes, ServedLanes
  <2>2. Answer(o, d, ends) BY <1>2
  <2>3. waiter' \in [ServedLanes -> Commands]
    BY <2>2, EmptyTypes DEF Answer, FedTypes
  <2>4. orphaned' \in BOOLEAN BY <2>2 DEF Answer
  <2>5. told' = told \cup Verdicts(waiter["client"], o.client) BY <2>2 DEF Answer
  <2> QED BY <2>1, <2>3, <2>4, <2>5, VerdictsType DEF FedTypes
<1> QED BY <1>6, <1>7, <1>8, <1>9, <1>10, <1>11 DEF FedTypes

\* Every reachable state of the owner has its types: in particular the machine
\* never holds an unreadable record, whatever was stored, lost or discarded.
THEOREM TypeCorrect == Spec => []TypeOK
<1>1. Init => TypeOK
  <2> SUFFICES ASSUME Init PROVE TypeOK OBVIOUS
  <2>1. m \in Machines /\ store \in Records
    BY EmptyTypes, FreshType DEF Init
  <2>2. flight \in [Drives -> Flights] /\ waiter \in [ServedLanes -> Commands]
    BY EmptyTypes, FlightTypes DEF Init
  <2>3. sent \in [seq : Nat, auth : PrincipalOrNone]
    BY DEF Init, NotSent, PrincipalOrNone
  <2>4. applied \in Seq(Nat) /\ allowedBy \subseteq Nat BY DEF Init
  <2>5. FedTypes BY <2>1, <2>2 DEF Init, FedTypes
  <2>6. WorldTypes BY <2>3, <2>4 DEF Init, WorldTypes
  <2> QED BY <2>5, <2>6, TypeParts
<1>2. TypeOK /\ [Next]_vars => TypeOK'
  <2> SUFFICES ASSUME TypeOK, [Next]_vars PROVE TypeOK' OBVIOUS
  <2>0. FedTypes /\ WorldTypes BY TypeParts
  <2> USE DEF vars, memory, world, bounds, progress, answers
  <2> SUFFICES FedTypes' /\ WorldTypes' BY DEF TypeOK, FedTypes, WorldTypes
  <2>1. CASE UNCHANGED vars
    BY <2>0, <2>1 DEF FedTypes, WorldTypes
  <2>2. ASSUME NEW lane \in ServedLanes, NEW cmd \in Commands, Arrive(lane, cmd)
        PROVE  FedTypes' /\ WorldTypes'
    <3>1. flight' \in [Drives -> Flights]
      <4>1. Ready(ForwardedEvent(cmd), FALSE) \in Flights BY FlightTypes
      <4> QED BY <2>0, <2>2, <4>1 DEF Arrive, FedTypes
    <3> QED BY <2>0, <2>2, <3>1 DEF Arrive, FedTypes, WorldTypes
  <2>3. CASE ClientArrives \/ CallbackArrives
    BY <2>2, <2>3, InputsAssumption DEF ClientArrives, CallbackArrives, ServedLanes
  <2>4. CASE TimerFires
    <3>1. Ready(TimerEvent, FALSE) \in Flights BY FlightTypes
    <3> QED BY <2>0, <2>4, <3>1 DEF TimerFires, FedTypes, WorldTypes
  <2>5. ASSUME NEW d \in Drives, Step(d) PROVE FedTypes' /\ WorldTypes'
    <3>1. flight[d].ev \in Events /\ link \in BOOLEAN
      BY <2>0 DEF FedTypes, Flights
    <3> QED BY <2>0, <2>5, <3>1, FeedType DEF Step, WorldTypes
  <2>6. ASSUME NEW d \in Drives, EngineFault(d) PROVE FedTypes' /\ WorldTypes'
    <3>1. faults' \in Nat BY <2>0, <2>6 DEF EngineFault, FaultIf, FedTypes
    <3>0. /\ applied' \in Seq(Nat)
          /\ changed' \in BOOLEAN
      <4>1. flight[d].arg \in Nat BY <2>0 DEF FedTypes, Flights
      <4>2. applied' \in Seq(Nat) BY <2>0, <2>6, <4>1 DEF EngineFault, Ran, WorldTypes
      <4>3. changed' \in BOOLEAN BY <2>6 DEF EngineFault, Ran
      <4> QED BY <4>2, <4>3
    <3>2. CASE flight[d].dying
      <4>1. waiter' \in [ServedLanes -> Commands]
        BY <2>0, <2>6, <3>2, EmptyTypes DEF EngineFault, FedTypes
      <4>2. flight' \in [Drives -> Flights] /\ m' \in Machines
        BY <2>0, <2>6, <3>2, EmptyTypes, FlightTypes, FreshType
           DEF EngineFault, FedTypes
      <4> QED BY <2>0, <2>6, <3>0, <3>1, <3>2, <4>1, <4>2
              DEF EngineFault, FedTypes, WorldTypes
    <3>3. CASE ~flight[d].dying
      <4>1. Ready(NoEvent, TRUE) \in Flights BY FlightTypes
      <4> QED BY <2>0, <2>6, <3>0, <3>1, <3>3, <4>1 DEF EngineFault, FedTypes, WorldTypes
    <3> QED BY <3>2, <3>3
  <2>7. ASSUME NEW d \in Drives, NEW conn \in BOOLEAN, NEW result \in Results,
               NEW fails, Feed(d, OutcomeOf(d, result), conn, fails)
        PROVE  FedTypes'
    BY <2>0, <2>7, OutcomeOfType, FeedType
  <2>8. link \in BOOLEAN BY <2>0 DEF FedTypes
  <2>9. ASSUME NEW d \in Drives, BindingChecked(d) PROVE FedTypes' /\ WorldTypes'
    <3>1. FedTypes' BY <2>7, <2>8, <2>9 DEF BindingChecked, Results
    <3>2. vetted' \in BOOLEAN BY <2>0, <2>9 DEF BindingChecked, WorldTypes
    <3> QED BY <2>0, <2>9, <3>1, <3>2 DEF BindingChecked, WorldTypes
  <2>10. ASSUME NEW d \in Drives, Opened(d) PROVE FedTypes' /\ WorldTypes'
    <3>1. FedTypes' BY <2>7, <2>10 DEF Opened, Results
    <3>2. NotSent \in [seq : Nat, auth : PrincipalOrNone]
      BY DEF NotSent, PrincipalOrNone
    <3>3. <<>> \in Seq(Nat) OBVIOUS
    <3>4. CASE UNCHANGED <<db, sent, progress>> BY <2>0, <3>1, <3>4 DEF WorldTypes
    <3>5. CASE /\ db' = "open" /\ sent' = NotSent /\ applied' = <<>>
               /\ changed' = FALSE /\ allowedBy' = {} /\ vetted' = FALSE
      BY <3>1, <3>2, <3>3, <3>5 DEF WorldTypes
    <3> QED BY <2>10, <3>4, <3>5 DEF Opened
  <2>11. ASSUME NEW d \in Drives, Recorded(d) PROVE FedTypes' /\ WorldTypes'
    <3>1. FedTypes' BY <2>7, <2>8, <2>11 DEF Recorded, Results
    <3> QED BY <2>0, <2>11, <3>1 DEF Recorded, WorldTypes
  <2>12. ASSUME NEW d \in Drives, Executed(d) PROVE FedTypes' /\ WorldTypes'
    <3>1. FedTypes' BY <2>7, <2>8, <2>12 DEF Executed, Results
    <3>2. flight[d].arg \in Nat BY <2>0 DEF FedTypes, Flights
    <3>3. applied' \in Seq(Nat) BY <2>0, <2>12, <3>2 DEF Executed, Ran, WorldTypes
    <3>4. changed' \in BOOLEAN BY <2>12 DEF Executed, Ran
    <3> QED BY <2>0, <2>12, <3>1, <3>3, <3>4 DEF Executed, WorldTypes
  <2>13. ASSUME NEW d \in Drives, ValidatorReplied(d) PROVE FedTypes' /\ WorldTypes'
    <3>1. FedTypes' BY <2>7, <2>8, <2>13 DEF ValidatorReplied, Results
    <3>2. flight[d].arg \in Nat BY <2>0 DEF FedTypes, Flights
    <3> QED BY <2>0, <2>13, <3>1, <3>2 DEF ValidatorReplied, WorldTypes
  <2>14. ASSUME NEW d \in Drives, SendCommit(d) PROVE FedTypes' /\ WorldTypes'
    <3>1. flight[d].arg \in Nat /\ [flight[d] EXCEPT !.took = TRUE] \in Flights
      BY <2>0 DEF FedTypes, Flights
    <3>2. store.auth \in PrincipalOrNone
      BY <2>0, UnreadableFacts DEF FedTypes, Records
    <3>3. flight' \in [Drives -> Flights]
      BY <2>0, <2>14, <3>1 DEF SendCommit, FedTypes
    <3> QED BY <2>0, <2>14, <3>1, <3>2, <3>3 DEF SendCommit, FedTypes, WorldTypes
  <2>15. ASSUME NEW d \in Drives, CommitReturned(d) PROVE FedTypes' /\ WorldTypes'
    <3>1. FedTypes' BY <2>7, <2>15 DEF CommitReturned, Results
    <3> QED BY <2>0, <2>15, <3>1 DEF CommitReturned, WorldTypes
  <2>16. ASSUME NEW d \in Drives, RolledBack(d) PROVE FedTypes' /\ WorldTypes'
    <3>1. FedTypes' BY <2>7, <2>16 DEF RolledBack, Results
    <3> QED BY <2>0, <2>16, <3>1 DEF RolledBack, WorldTypes
  <2>17. CASE DbApplies \/ DbAborts \/ DeadlinePasses
    BY <2>0, <2>17 DEF DbApplies, DbAborts, DeadlinePasses, FedTypes, WorldTypes
  <2>18. CASE Crash
    <3>1. /\ m' \in Machines
          /\ flight' \in [Drives -> Flights]
          /\ waiter' \in [ServedLanes -> Commands]
      BY <2>18, EmptyTypes, FreshType, FlightTypes DEF Crash
    <3>2. store' \in Records \cup {Unreadable}
      BY <2>0, <2>18, EmptyTypes DEF Crash, FedTypes
    <3>3. alarm' \in BOOLEAN BY <2>18 DEF Crash
    <3>4. WorldTypes' BY <2>0, <2>18 DEF Crash, WorldTypes
    <3>5. /\ loaded' \in BOOLEAN /\ link' \in BOOLEAN /\ due' \in BOOLEAN
          /\ runtime' \in Snapshots /\ faults' \in Nat /\ crashes' \in Nat
      <4>1. crashes' = crashes + 1 /\ faults' = faults /\ due' = due
        BY <2>18 DEF Crash
      <4>2. loaded' = FALSE /\ link' = FALSE /\ runtime' \in Snapshots
        BY <2>18 DEF Crash
      <4>3. faults' \in Nat /\ crashes' \in Nat BY <2>0, <4>1 DEF FedTypes
      <4>4. due' \in BOOLEAN BY <2>0, <4>1 DEF FedTypes
      <4> QED BY <4>2, <4>3, <4>4
    <3>6. told' = told /\ orphaned' = orphaned BY <2>18 DEF Crash
    <3> QED BY <2>0, <3>1, <3>2, <3>3, <3>4, <3>5, <3>6 DEF FedTypes
  <2> QED BY <2>1, <2>3, <2>4, <2>5, <2>6, <2>9, <2>10, <2>11, <2>12, <2>13,
             <2>14, <2>15, <2>16, <2>17, <2>18 DEF Next, Progress
<1> QED BY <1>1, <1>2, PTL DEF Spec

(***************************************************************************)
(* COMMIT is recorded before it is sent, for every number of faults,       *)
(* losses of the owner, callers, checks and statements.  The argument is   *)
(* the inductive invariant CommitProtocol: CommitStep says which steps     *)
(* establish it, SealedStep that no step after them disturbs it.           *)
(***************************************************************************)
\* What the callers learn from a step.
Tells(o) ==
    /\ told' = told \cup Verdicts(waiter["client"], o.client)
    /\ waiter'["client"] \in {NoCmd, waiter["client"]}

\* What a step of a drive does to the state the invariant speaks of.
LEMMA FeedFacts ==
    ASSUME FedTypes, NEW d \in Drives, NEW ev \in Events, NEW conn, NEW fails,
           Feed(d, ev, conn, fails)
    PROVE  \E h \in HostFacts, took \in BOOLEAN :
             LET o == Run(h, ev)
             IN  /\ h.id \in NextIds /\ h.snap = runtime /\ runtime' = runtime
                 /\ link' = (conn /\ loaded' /\ ~Idle(o.m) /\ o.await.type # "open")
                 /\ o \in Outputs
                 /\ loaded' = ~(o.reset \/ (o.await.type = "none" /\ flight[d].dying))
                 /\ m' = IF loaded' THEN o.m ELSE Fresh(NoRec)
                 /\ store' = IF o.await.type = "persist" /\ took THEN o.m.rec ELSE store
                 /\ flight' = [flight EXCEPT ![d] =
                       IF o.await.type = "none" THEN Idling
                       ELSE Awaiting(o.await,
                                     took /\ o.await.type \in {"persist", "setTimer"},
                                     conn, flight[d].dying)]
                 /\ Tells(o)
<1>1. PICK late \in {due, TRUE}, took \in BOOLEAN, id \in NextIds :
      \E o \in {Run([due |-> due, late |-> late, snap |-> runtime, id |-> id], ev)} :
        LET type == o.await.type
            ends == type = "none"
            drop == o.reset \/ (ends /\ flight[d].dying)
            write == type \in {"persist", "setTimer"}
        IN  /\ ~took => write
            /\ FaultIf(fails \/ ~took)
            /\ m' = IF drop THEN Fresh(NoRec) ELSE o.m
            /\ loaded' = ~drop
            /\ link' = (conn /\ ~drop /\ ~Idle(o.m) /\ type # "open")
            /\ store' = IF type = "persist" /\ took THEN o.m.rec ELSE store
            /\ alarm' = ((alarm \/ (type = "setTimer" /\ took)) /\ type # "open")
            /\ due' = (due /\ type # "open")
            /\ flight' = [flight EXCEPT ![d] =
                  IF ends THEN Idling
                  ELSE Awaiting(o.await, took /\ write, conn, flight[d].dying)]
            /\ Answer(o, d, ends)
            /\ UNCHANGED <<runtime, crashes>>
  BY DEF Feed
<1> DEFINE h == [due |-> due, late |-> late, snap |-> runtime, id |-> id]
           o == Run(h, ev)
<1>2. h \in HostFacts /\ h.id \in NextIds /\ h.snap = runtime
  <2>1. id \in Nat BY DEF NextIds, Ids
  <2>2. late \in BOOLEAN BY DEF FedTypes
  <2> QED BY <2>1, <2>2 DEF HostFacts, FedTypes
<1>3. /\ loaded' = ~(o.reset \/ (o.await.type = "none" /\ flight[d].dying))
      /\ m' = IF o.reset \/ (o.await.type = "none" /\ flight[d].dying)
              THEN Fresh(NoRec) ELSE o.m
      /\ store' = IF o.await.type = "persist" /\ took THEN o.m.rec ELSE store
      /\ flight' = [flight EXCEPT ![d] =
            IF o.await.type = "none" THEN Idling
            ELSE Awaiting(o.await,
                          took /\ o.await.type \in {"persist", "setTimer"},
                          conn, flight[d].dying)]
  BY <1>1
<1> HIDE DEF h
<1>4. o \in Outputs BY <1>2, RunType
<1>5. m' = IF loaded' THEN o.m ELSE Fresh(NoRec) BY <1>3
<1>6. took \in BOOLEAN OBVIOUS
<1>7. /\ link' = (conn /\ loaded' /\ ~Idle(o.m) /\ o.await.type # "open")
      /\ runtime' = runtime
  BY <1>1 DEF h
<1>8. Tells(o)
  <2>1. Answer(o, d, o.await.type = "none") BY <1>1 DEF h
  <2> HIDE DEF o
  <2> QED BY <2>1 DEF Answer, Tells, ServedLanes
<1> QED BY <1>2, <1>3, <1>4, <1>5, <1>6, <1>7, <1>8

\* The drive that stepped now awaits the effect the step asked for.
LEMMA FedFlight ==
    ASSUME FedTypes, NEW d \in Drives, NEW effect \in Effects, NEW took, NEW conn,
           NEW dying,
           flight' = [flight EXCEPT ![d] =
                         IF effect.type = "none" THEN Idling
                         ELSE Awaiting(effect, took, conn, dying)]
    PROVE  /\ \A e \in Drives \ {d} : flight'[e] = flight[e]
           /\ flight'[d].ev.result = "none"
           /\ \A type \in EffectTypes : Awaits(d, type)' <=> type = effect.type
           /\ \A type \in EffectTypes, e \in Drives \ {d} :
                 Awaits(e, type)' <=> Awaits(e, type)
           /\ effect.type # "none" =>
                 flight'[d].took = took /\ flight'[d].ev.id = effect.id
<1>1. /\ flight \in [Drives -> Flights]
      /\ flight'[d] = IF effect.type = "none" THEN Idling
                      ELSE Awaiting(effect, took, conn, dying)
      /\ \A e \in Drives \ {d} : flight'[e] = flight[e]
  BY DEF FedTypes
<1> DEFINE ev == [NoEvent EXCEPT !.type = effect.type, !.id = effect.id]
           w == Awaiting(effect, took, conn, dying)
<1>2. ev.type = effect.type /\ ev.id = effect.id /\ ev.result = "none"
  BY DEF NoEvent
<1>3. w.ev = ev /\ w.stage = "effect" /\ w.took = took
  <2>1. w = [stage |-> "effect", arg |-> effect.arg, took |-> took, had |-> conn,
             dying |-> dying, ev |-> ev]
    BY DEF Awaiting
  <2> HIDE DEF ev, w
  <2> QED BY <2>1
<1> HIDE DEF ev, w
<1>4. Idling.stage = "idle" /\ Idling.ev.result = "none"
  BY DEF Idling, NoEvent
<1>5. "none" \notin EffectTypes BY DEF EffectTypes
<1>6. \A type \in EffectTypes : Awaits(d, type)' <=> type = effect.type
  <2>1. CASE effect.type = "none"
    BY <1>1, <1>4, <1>5, <2>1 DEF Awaits
  <2>2. CASE effect.type # "none"
    BY <1>1, <1>2, <1>3, <2>2 DEF Awaits, w
  <2> QED BY <2>1, <2>2
<1>7. \A type \in EffectTypes, e \in Drives \ {d} : Awaits(e, type)' <=> Awaits(e, type)
  BY <1>1 DEF Awaits
<1> QED BY <1>1, <1>2, <1>3, <1>4, <1>6, <1>7 DEF w

\* The state a step starts from is consistent, and is the one in memory
\* whenever it has work.
LEMMA CurrentFacts ==
    ASSUME FedTypes, CommitProtocol
    PROVE  /\ Consistent(Current)
           /\ Current.work.task # "none" => loaded /\ Current = m
           /\ ~(~loaded /\ store = Unreadable) => Current \in Machines
<1>1. Consistent(m) BY DEF CommitProtocol
<1>2. Consistent(Fresh(store)) /\ Fresh(store).work.task = "none" BY FreshFacts
<1>3. ~(~loaded /\ store = Unreadable) => Current \in Machines
  BY FreshType DEF Current, FedTypes
<1> QED BY <1>1, <1>2, <1>3 DEF Current

\* How the owner's steps lead to COMMIT.
LEMMA RunCommits ==
    ASSUME FedTypes, CommitProtocol, NEW h \in HostFacts, NEW ev \in Events
    PROVE  LET o == Run(h, ev)
           IN  /\ Consistent(o.m)
               /\ \/ Plain(Current, o)
                  \/ CommitAnnounced(h, o)
                  \/ /\ loaded
                     /\ m.work.task = "CommitPersist" /\ m.work.id = ev.id
                     /\ ev.type = "persist" /\ ev.result = "ok"
                     /\ CommitAsked(m, o) /\ ~HasDeferred(o.m)
<1>1. CASE ~loaded /\ store = Unreadable
  BY <1>1, SealedDiscard, PlainFacts DEF Run
<1>2. CASE ~(~loaded /\ store = Unreadable)
  <2>1. Run(h, ev) = RunDispatch(Current, h, ev) BY <1>2 DEF Run
  <2>2. /\ Consistent(Current) /\ Current \in Machines
        /\ Current.work.task # "none" => loaded /\ Current = m
    BY <1>2, CurrentFacts
  <2> DEFINE c == Current
             o == RunDispatch(c, h, ev)
  <2>3. /\ Consistent(o.m)
        /\ \/ Plain(c, o)
           \/ CommitAnnounced(h, o)
           \/ /\ c.work.task = "CommitPersist" /\ c.work.id = ev.id
              /\ ev.type = "persist" /\ ev.result = "ok"
              /\ CommitAsked(c, o) /\ ~HasDeferred(o.m)
    <3> HIDE DEF c
    <3>1. c \in Machines /\ Consistent(c) BY <2>2 DEF c
    <3> QED BY <3>1, CommitStep
  <2> HIDE DEF o
  <2> QED BY <2>1, <2>2, <2>3 DEF o
<1> QED BY <1>1, <1>2

\* While COMMIT may have been sent, the owner's steps keep the seal.
LEMMA RunSealed ==
    ASSUME FedTypes, CommitProtocol, CommitPossible, NEW h \in HostFacts,
           NEW ev \in Events, ~(ev.type = "commit" /\ ev.result = "not_committed")
    PROVE  SealedOut(Run(h, ev))
<1>0. /\ store.phase \in Sealing \cup {"unreadable"}
      /\ loaded => Sealed(m)
  BY DEF CommitProtocol, SealedByCommit
<1>1. CASE ~loaded /\ store = Unreadable
  BY <1>1, SealedDiscard DEF Run
<1>2. CASE ~loaded /\ store # Unreadable
  <2>1. store \in Records BY <1>2 DEF FedTypes
  <2>2. store.phase \in Sealing
    BY <1>0, <2>1 DEF Records, Phases, HasDeadline, Terminal
  <2>3. Fresh(store) \in Machines /\ Sealed(Fresh(store)) BY <2>1, <2>2, SealedFresh
  <2> QED BY <1>2, <2>3, SealedStep DEF Run, Current
<1>3. CASE loaded
  BY <1>0, <1>3, SealedStep DEF Run, Current, FedTypes
<1>4. loaded \in BOOLEAN BY DEF FedTypes
<1> QED BY <1>1, <1>2, <1>3, <1>4

\* A step of a drive keeps the protocol, if the outcomes that matter to it are
\* those of the effect the drive awaits: a persist that succeeded took, and a
\* COMMIT that was not sent did not.
LEMMA FeedCommits ==
    ASSUME FedTypes, CommitProtocol, NEW d \in Drives, NEW ev \in Events, NEW conn,
           NEW fails, Feed(d, ev, conn, fails), sent' \in {sent, NotSent},
           ev.type = "persist" /\ ev.result = "ok" =>
               Awaits(d, "persist") /\ flight[d].took /\ ev.id = flight[d].ev.id,
           ev.type = "commit" /\ ev.result = "not_committed" =>
               Awaits(d, "commit") /\ ~flight[d].took
    PROVE  CommitProtocol'
<1>1. PICK h \in HostFacts, took \in BOOLEAN :
        LET o == Run(h, ev)
        IN  /\ h.id \in NextIds
            /\ o \in Outputs
            /\ loaded' = ~(o.reset \/ (o.await.type = "none" /\ flight[d].dying))
            /\ m' = IF loaded' THEN o.m ELSE Fresh(NoRec)
            /\ store' = IF o.await.type = "persist" /\ took THEN o.m.rec ELSE store
            /\ flight' = [flight EXCEPT ![d] =
                  IF o.await.type = "none" THEN Idling
                  ELSE Awaiting(o.await,
                                took /\ o.await.type \in {"persist", "setTimer"},
                                conn, flight[d].dying)]
  BY FeedFacts
<1> DEFINE o == Run(h, ev)
           type == o.await.type
           wrote == took /\ type \in {"persist", "setTimer"}
<1>2. /\ h.id \in NextIds
      /\ o \in Outputs
      /\ loaded' = ~(o.reset \/ (type = "none" /\ flight[d].dying))
      /\ m' = IF loaded' THEN o.m ELSE Fresh(NoRec)
      /\ store' = IF type = "persist" /\ took THEN o.m.rec ELSE store
      /\ flight' = [flight EXCEPT ![d] =
            IF type = "none" THEN Idling
            ELSE Awaiting(o.await, wrote, conn, flight[d].dying)]
  BY <1>1
<1>3. /\ Consistent(o.m)
      /\ \/ Plain(Current, o)
         \/ CommitAnnounced(h, o)
         \/ /\ loaded
            /\ m.work.task = "CommitPersist" /\ m.work.id = ev.id
            /\ ev.type = "persist" /\ ev.result = "ok"
            /\ CommitAsked(m, o) /\ ~HasDeferred(o.m)
  BY RunCommits
<1>4. CommitPossible /\ ~(ev.type = "commit" /\ ev.result = "not_committed") =>
         SealedOut(o)
  BY RunSealed
<1>5. o.await \in Effects /\ o.reset \in BOOLEAN BY <1>2 DEF Outputs
<1>6. /\ "commit" \in EffectTypes /\ "persist" \in EffectTypes BY DEF EffectTypes
<1> HIDE DEF o
<1>7. /\ \A e \in Drives \ {d} : flight'[e] = flight[e]
      /\ flight'[d].ev.result = "none"
      /\ \A t \in EffectTypes : Awaits(d, t)' <=> t = type
      /\ \A t \in EffectTypes, e \in Drives \ {d} : Awaits(e, t)' <=> Awaits(e, t)
      /\ type # "none" => flight'[d].took = wrote /\ flight'[d].ev.id = o.await.id
  <2> HIDE DEF wrote
  <2> QED BY <1>2, <1>5, FedFlight
<1>8. Consistent(m') BY <1>2, <1>3, FreshFacts
<1>9. EventsUnanswered' BY <1>7 DEF EventsUnanswered, CommitProtocol
<1>10. CASE type = "commit"
  <2>1. /\ loaded /\ m.work.task = "CommitPersist" /\ m.work.id = ev.id
        /\ ev.type = "persist" /\ ev.result = "ok"
        /\ CommitAsked(m, o) /\ ~HasDeferred(o.m)
    BY <1>3, <1>10 DEF Plain, Apart, CommitAnnounced
  <2>2. m.rec.phase = "committing" /\ store.phase = "committing"
    BY <2>1 DEF CommitProtocol, AnnouncedFirst
  <2>3. ~CommitPossible BY <2>1 DEF CommitProtocol, SealedByCommit, Sealed
  <2>4. sent' = NotSent /\ \A e \in Drives : ~Awaits(e, "commit")
    BY <2>3 DEF CommitPossible
  <2>5. loaded' /\ m' = o.m /\ store' = store
    BY <1>2, <1>10, <2>1 DEF CommitAsked
  <2>6. Sealed(m') /\ m'.work.task = "CommitSend"
    BY <2>1, <2>2, <2>5 DEF CommitAsked, Sealed, Sealing
  <2>7. SealedByCommit'
    BY <2>2, <2>5, <2>6 DEF SealedByCommit, Sealing
  <2>8. SentOnce' BY <1>6, <1>7, <2>4 DEF SentOnce
  <2>9. AnnouncedFirst' BY <2>6 DEF AnnouncedFirst
  <2> QED BY <1>8, <1>9, <2>7, <2>8, <2>9 DEF CommitProtocol
<1>11. CASE type # "commit"
  <2>1. ~Awaits(d, "commit")' /\ \A e \in Drives \ {d} : Awaits(e, "commit")' <=> Awaits(e, "commit")
    BY <1>6, <1>7, <1>11
  <2>2. SentOnce' BY <1>7, <2>1 DEF SentOnce, CommitProtocol
  <2>3. SealedByCommit'
    <3> SUFFICES ASSUME CommitPossible'
                 PROVE  /\ store'.phase \in Sealing \cup {"unreadable"}
                        /\ loaded' => Sealed(m')
      BY DEF SealedByCommit
    <3>1. sent # NotSent \/ \E e \in Drives \ {d} : Awaits(e, "commit")
      BY <2>1 DEF CommitPossible
    <3>2. CommitPossible BY <3>1 DEF CommitPossible
    <3>3. ~(ev.type = "commit" /\ ev.result = "not_committed")
      BY <3>1 DEF CommitProtocol, SentOnce
    <3>4. SealedOut(o) BY <1>4, <3>2, <3>3
    <3>5. store.phase \in Sealing \cup {"unreadable"}
      BY <3>2 DEF CommitProtocol, SealedByCommit
    <3>6. CASE o.reset = TRUE
      BY <1>2, <3>4, <3>5, <3>6 DEF SealedOut
    <3>7. CASE o.reset = FALSE
      <4>1. Sealed(o.m) BY <3>4, <3>7 DEF SealedOut
      <4> QED BY <1>2, <3>5, <4>1 DEF Sealed
    <3> QED BY <1>5, <3>6, <3>7
  <2>4. AnnouncedFirst'
    <3> SUFFICES ASSUME loaded', m'.work.task = "CommitPersist"
                 PROVE  /\ m'.rec.phase = "committing"
                        /\ \A e \in Drives :
                              /\ Awaits(e, "persist")'
                              /\ flight'[e].took
                              /\ flight'[e].ev.id = m'.work.id
                              => store'.phase = "committing"
      BY DEF AnnouncedFirst
    <3>1. m' = o.m BY <1>2
    <3>2. CASE Plain(Current, o)
      <4>1. /\ type \notin {"commit", "persist"}
            /\ o.m.work = Current.work /\ o.m.rec = Current.rec
        BY <3>1, <3>2 DEF Plain, Apart
      <4>2. loaded /\ Current = m BY <3>1, <4>1, CurrentFacts
      <4>3. store' = store BY <1>2, <4>1
      <4>4. ~Awaits(d, "persist")' BY <1>6, <1>7, <4>1
      <4>5. \A e \in Drives : Awaits(e, "persist")' => Awaits(e, "persist") /\ e # d
        BY <1>6, <1>7, <4>4
      <4> QED BY <1>7, <3>1, <4>1, <4>2, <4>3, <4>5 DEF CommitProtocol, AnnouncedFirst
    <3>3. CASE CommitAnnounced(h, o)
      <4>1. m'.rec.phase = "committing" /\ m'.work.id = h.id /\ type = "persist"
        BY <3>1, <3>3 DEF CommitAnnounced
      <4>2. \A e \in Drives : flight[e].ev.id # h.id
        BY <1>2 DEF NextIds, UsedIds
      <4>3. flight'[d].took => store'.phase = "committing"
        BY <1>2, <1>7, <3>1, <4>1
      <4> QED BY <1>7, <4>1, <4>2, <4>3
    <3>4. ~CommitAsked(m, o) BY <1>11 DEF CommitAsked
    <3> QED BY <1>3, <3>2, <3>3, <3>4
  <2> QED BY <1>8, <1>9, <2>2, <2>3, <2>4 DEF CommitProtocol
<1> QED BY <1>10, <1>11

\* Drives that stop awaiting, or start an event, leave the protocol alone.
LEMMA QuietFlights ==
    ASSUME CommitProtocol, store' = store, sent' = sent,
           \/ m' = m /\ loaded' = loaded
           \/ m' = Fresh(NoRec) /\ loaded' = FALSE,
           \A d \in Drives : \/ flight'[d] = flight[d]
                             \/ /\ flight'[d].stage # "effect"
                                /\ flight'[d].ev.result = "none"
    PROVE  CommitProtocol'
<1>1. \A d \in Drives, type \in EffectTypes :
        Awaits(d, type)' => Awaits(d, type) /\ flight'[d] = flight[d]
  BY DEF Awaits
<1>2. "commit" \in EffectTypes /\ "persist" \in EffectTypes BY DEF EffectTypes
<1>3. CommitPossible' => CommitPossible BY <1>1, <1>2 DEF CommitPossible
<1>4. SealedByCommit' BY <1>3 DEF CommitProtocol, SealedByCommit
<1>5. SentOnce' BY <1>1, <1>2 DEF CommitProtocol, SentOnce
<1>6. AnnouncedFirst' BY <1>1, <1>2 DEF CommitProtocol, AnnouncedFirst
<1>7. EventsUnanswered' BY DEF CommitProtocol, EventsUnanswered
<1>8. Consistent(m') BY FreshFacts DEF CommitProtocol
<1> QED BY <1>4, <1>5, <1>6, <1>7, <1>8 DEF CommitProtocol

\* The events of drives that are not awaiting have no result yet.
LEMMA OpenEvents ==
    /\ Idling.stage # "effect" /\ Idling.ev.result = "none"
    /\ \A cmd, dying : /\ Ready(ForwardedEvent(cmd), dying).stage # "effect"
                       /\ Ready(ForwardedEvent(cmd), dying).ev.result = "none"
    /\ \A dying : /\ Ready(TimerEvent, dying).stage # "effect"
                  /\ Ready(TimerEvent, dying).ev.result = "none"
                  /\ Ready(NoEvent, dying).stage # "effect"
                  /\ Ready(NoEvent, dying).ev.result = "none"
BY DEF Idling, Ready, ForwardedEvent, TimerEvent, NoEvent

\* The protocol of COMMIT is kept by every step of the owner: the record says
\* `committing` before COMMIT is sent, COMMIT is sent once, and from then on no
\* event, fault or loss of the owner makes the record deny it.
THEOREM CommitProtocolHolds == Spec => []CommitProtocol
<1>1. Init => CommitProtocol
  <2> SUFFICES ASSUME Init PROVE CommitProtocol OBVIOUS
  <2>1. \A d \in Drives : flight[d] = Idling BY DEF Init
  <2>2. \A d \in Drives, type \in EffectTypes : ~Awaits(d, type)
    BY <2>1, OpenEvents DEF Awaits
  <2>3. "commit" \in EffectTypes BY DEF EffectTypes
  <2>4. ~CommitPossible BY <2>2, <2>3 DEF CommitPossible, Init
  <2>5. Consistent(m) BY FreshFacts DEF Init
  <2> QED BY <2>1, <2>2, <2>3, <2>4, <2>5, OpenEvents
          DEF CommitProtocol, SealedByCommit, SentOnce, AnnouncedFirst,
              EventsUnanswered, Init
<1>2. TypeOK /\ CommitProtocol /\ [Next]_vars => CommitProtocol'
  <2> SUFFICES ASSUME TypeOK, CommitProtocol, [Next]_vars PROVE CommitProtocol'
    OBVIOUS
  <2>0. FedTypes BY TypeParts
  <2>1. flight \in [Drives -> Flights] BY <2>0 DEF FedTypes
  <2>2. \A d \in Drives : flight[d].ev \in Events /\ flight[d].ev.result = "none"
    BY <2>1 DEF Flights, CommitProtocol, EventsUnanswered
  <2>3. \A d \in Drives, result \in Results :
          /\ OutcomeOf(d, result) \in Events
          /\ OutcomeOf(d, result).type = flight[d].ev.type
          /\ OutcomeOf(d, result).id = flight[d].ev.id
          /\ OutcomeOf(d, result).result = result
    BY <2>2 DEF OutcomeOf, Events
  <2> USE DEF vars, memory, world, bounds, progress, answers
  <2>4. CASE UNCHANGED vars
    BY <2>4, QuietFlights
  <2>5. CASE ClientArrives \/ CallbackArrives
    <3>1. PICK lane \in ServedLanes, cmd \in ClientInputs \cup CallbackInputs :
            Arrive(lane, cmd)
      BY <2>5 DEF ClientArrives, CallbackArrives, ServedLanes
    <3>2. lane \in Drives BY DEF ServedLanes, Drives
    <3>3. flight'[lane] = Ready(ForwardedEvent(cmd), FALSE)
          /\ \A e \in Drives \ {lane} : flight'[e] = flight[e]
      BY <2>1, <3>1, <3>2 DEF Arrive
    <3>4. /\ store' = store /\ sent' = sent /\ m' = m /\ loaded' = loaded
      BY <3>1 DEF Arrive
    <3>5. \A e \in Drives : \/ flight'[e] = flight[e]
                            \/ /\ flight'[e].stage # "effect"
                               /\ flight'[e].ev.result = "none"
      BY <3>3, OpenEvents
    <3> QED BY <3>4, <3>5, QuietFlights
  <2>6. CASE TimerFires
    <3>1. flight'["timer"] = Ready(TimerEvent, FALSE)
          /\ \A e \in Drives \ {"timer"} : flight'[e] = flight[e]
      BY <2>1, <2>6 DEF TimerFires, Drives
    <3>2. /\ store' = store /\ sent' = sent /\ m' = m /\ loaded' = loaded
      BY <2>6 DEF TimerFires
    <3>3. \A e \in Drives : \/ flight'[e] = flight[e]
                            \/ /\ flight'[e].stage # "effect"
                               /\ flight'[e].ev.result = "none"
      BY <3>1, OpenEvents
    <3> QED BY <3>2, <3>3, QuietFlights
  <2>7. ASSUME NEW d \in Drives, Step(d) PROVE CommitProtocol'
    <3>1. Feed(d, flight[d].ev, link, FALSE) /\ sent' = sent BY <2>7 DEF Step
    <3> QED BY <2>0, <2>2, <3>1, FeedCommits
  <2>8. ASSUME NEW d \in Drives, EngineFault(d) PROVE CommitProtocol'
    <3>1. /\ flight'[d] \in {Idling, Ready(NoEvent, TRUE)}
          /\ \A e \in Drives \ {d} : flight'[e] = flight[e]
          /\ \/ m' = m /\ loaded' = loaded
             \/ m' = Fresh(NoRec) /\ loaded' = FALSE
          /\ store' = store /\ sent' = sent
      BY <2>1, <2>8 DEF EngineFault
    <3> QED BY <3>1, OpenEvents, QuietFlights
  <2>9. ASSUME NEW d \in Drives, NEW result \in Results, NEW conn, NEW fails,
               Feed(d, OutcomeOf(d, result), conn, fails), sent' \in {sent, NotSent},
               flight[d].ev.type = "persist" /\ result = "ok" =>
                   Awaits(d, "persist") /\ flight[d].took,
               flight[d].ev.type = "commit" /\ result = "not_committed" =>
                   Awaits(d, "commit") /\ ~flight[d].took
        PROVE  CommitProtocol'
    BY <2>0, <2>3, <2>9, FeedCommits
  <2>10. CASE \E d \in Drives : BindingChecked(d) \/ Executed(d) \/ ValidatorReplied(d)
                                 \/ Opened(d) \/ RolledBack(d)
    <3>0. link \in BOOLEAN BY <2>0 DEF FedTypes
    <3>1. PICK d \in Drives, result \in Results, conn \in BOOLEAN, fails \in BOOLEAN :
            /\ Feed(d, OutcomeOf(d, result), conn, fails)
            /\ sent' \in {sent, NotSent}
            /\ flight[d].ev.type \notin {"persist", "commit"}
      <4>1. PICK d \in Drives : BindingChecked(d) \/ Executed(d) \/ ValidatorReplied(d)
                                \/ Opened(d) \/ RolledBack(d)
        BY <2>10
      <4>2. CASE BindingChecked(d) \/ Executed(d) \/ ValidatorReplied(d)
        BY <3>0, <4>2 DEF BindingChecked, Executed, ValidatorReplied, Awaits, Results
      <4>3. CASE Opened(d) BY <4>3 DEF Opened, Awaits, Results
      <4>4. CASE RolledBack(d) BY <4>4 DEF RolledBack, Awaits, Results
      <4> QED BY <4>1, <4>2, <4>3, <4>4
    <3> QED BY <2>9, <3>1
  <2>11. ASSUME NEW d \in Drives, Recorded(d) PROVE CommitProtocol'
    <3>1. sent' = sent /\ flight[d].ev.type \in {"persist", "setTimer"}
          /\ flight[d].stage = "effect"
      BY <2>11 DEF Recorded, Awaits
    <3>2. CASE flight[d].took /\ Feed(d, OutcomeOf(d, "ok"), link, FALSE)
      BY <2>9, <3>1, <3>2 DEF Awaits, Results
    <3>3. CASE Feed(d, OutcomeOf(d, "failed"), link, flight[d].took)
      BY <2>9, <3>1, <3>3 DEF Results
    <3> QED BY <2>11, <3>2, <3>3 DEF Recorded
  <2>12. ASSUME NEW d \in Drives, CommitReturned(d) PROVE CommitProtocol'
    <3>1. sent' = sent /\ Awaits(d, "commit") /\ flight[d].ev.type = "commit"
      BY <2>12 DEF CommitReturned, Awaits
    <3>2. CASE Feed(d, OutcomeOf(d, "ok"), FALSE, FALSE)
      BY <2>9, <3>1, <3>2 DEF Results
    <3>3. CASE ~flight[d].took /\ Feed(d, OutcomeOf(d, "not_committed"), FALSE, FALSE)
      BY <2>9, <3>1, <3>3 DEF Results
    <3>4. CASE Feed(d, OutcomeOf(d, "unknown"), FALSE, FALSE)
      BY <2>9, <3>1, <3>4 DEF Results
    <3> QED BY <2>12, <3>2, <3>3, <3>4 DEF CommitReturned
  <2>13. ASSUME NEW d \in Drives, SendCommit(d) PROVE CommitProtocol'
    <3>1. /\ Awaits(d, "commit")
          /\ flight' = [flight EXCEPT ![d].took = TRUE]
          /\ m' = m /\ loaded' = loaded /\ store' = store
      BY <2>13 DEF SendCommit
    <3>2. flight[d] \in Flights BY <2>1
    <3>3. /\ flight'[d].stage = flight[d].stage /\ flight'[d].ev = flight[d].ev
          /\ flight'[d].took = TRUE
          /\ \A e \in Drives \ {d} : flight'[e] = flight[e]
      BY <2>1, <3>1, <3>2 DEF Flights
    <3>4. \A e \in Drives, type \in EffectTypes : Awaits(e, type)' <=> Awaits(e, type)
      BY <3>3 DEF Awaits
    <3>5. "commit" \in EffectTypes /\ "persist" \in EffectTypes BY DEF EffectTypes
    <3>6. \A e \in Drives : Awaits(e, "commit") => e = d
      BY <3>1 DEF CommitProtocol, SentOnce
    <3>7. SentOnce' BY <3>3, <3>4, <3>5, <3>6 DEF SentOnce
    <3>8. CommitPossible BY <3>1 DEF CommitPossible
    <3>9. SealedByCommit' BY <3>1, <3>8 DEF CommitProtocol, SealedByCommit
    <3>10. AnnouncedFirst'
      <4>1. m.work.task # "CommitPersist" \/ ~loaded
        BY <3>8 DEF CommitProtocol, SealedByCommit, Sealed
      <4> QED BY <3>1, <4>1 DEF AnnouncedFirst
    <3>11. EventsUnanswered' /\ Consistent(m')
      BY <3>1, <3>3 DEF CommitProtocol, EventsUnanswered
    <3> QED BY <3>7, <3>9, <3>10, <3>11 DEF CommitProtocol
  <2>14. CASE DbApplies \/ DbAborts \/ DeadlinePasses
    BY <2>14, QuietFlights DEF DbApplies, DbAborts, DeadlinePasses
  <2>15. CASE Crash
    <3>1. /\ m' = Fresh(NoRec) /\ loaded' = FALSE /\ sent' = sent
          /\ \A d \in Drives : flight'[d] = Idling
          /\ store' \in {store, IF store = NoRec THEN NoRec ELSE Unreadable}
      BY <2>15 DEF Crash
    <3>2. \A d \in Drives, type \in EffectTypes : ~Awaits(d, type)'
      BY <3>1, OpenEvents DEF Awaits
    <3>3. "commit" \in EffectTypes BY DEF EffectTypes
    <3>4. CommitPossible' => CommitPossible BY <3>1, <3>2, <3>3 DEF CommitPossible
    <3>5. NoRec.phase = "absent" /\ Unreadable.phase = "unreadable"
      BY DEF NoRec, Unreadable
    <3>6. SealedByCommit'
      BY <3>1, <3>4, <3>5 DEF CommitProtocol, SealedByCommit, Sealing
    <3>7. SentOnce' /\ AnnouncedFirst' BY <3>1, <3>2, <3>3 DEF SentOnce, AnnouncedFirst
    <3>8. EventsUnanswered' /\ Consistent(m')
      BY <3>1, OpenEvents, FreshFacts DEF EventsUnanswered
    <3> QED BY <3>6, <3>7, <3>8 DEF CommitProtocol
  <2> QED BY <2>4, <2>5, <2>6, <2>7, <2>8, <2>10, <2>11, <2>12, <2>13, <2>14, <2>15
          DEF Next, Progress
<1> QED BY <1>1, <1>2, TypeCorrect, PTL DEF Spec

\* COMMIT is recorded before it is sent, and the record never takes it back:
\* while the store holds a record that denies a commit, none was handed to the
\* database, so a successor may end such a transaction for certain.
THEOREM RecordedFirst == Spec => []CommitRecordedFirst
<1>1. CommitProtocol => CommitRecordedFirst
  BY DEF CommitProtocol, SealedByCommit, CommitPossible, CommitRecordedFirst,
         NotCommitting, Sealing
<1> QED BY <1>1, CommitProtocolHolds, PTL
==============================================================================
