--------------------------- MODULE ClientSession ---------------------------
(***************************************************************************)
(* One interactive transaction from the application's call to the database *)
(* stream: the client library (TransactionClient), an unreliable network,  *)
(* the owner of the transaction, and the HTTP stream (HranaStream).        *)
(*                                                                         *)
(* The owner is the one of module StepMachine with the steps the client    *)
(* cannot tell apart merged: a command's binding check, its persist and    *)
(* its host calls are one step each side of the database round trip, and   *)
(* the phases that answer alike ("failed" and "expired") are one.  What is *)
(* kept is the order of its checks, the record a lost owner leaves, and    *)
(* everything it does with the stream.  The session starts after BEGIN.    *)
(***************************************************************************)
EXTENDS TransactionClient, HranaStream, FiniteSets

CONSTANTS
    MaxCalls,       \* calls the application makes
    MaxLosses,      \* answers the client does not get
    MaxOwnerLosses  \* times the owner loses its memory and its connection

ASSUME BoundsAssumption == {MaxCalls, MaxLosses, MaxOwnerLosses} \subseteq Nat

VARIABLES
    client,     \* the transaction object of the client library
    queue,      \* the calls that wait for their turn; the first is in progress
    waiting,    \* the attempt whose answer the first call awaits, or 0
    reply,      \* the answer to that attempt, or "none"
    wire,       \* the commands sent and not yet taken by the server
    owner,      \* the owner's record and the job it works on
    stream,     \* the owner's database stream
    flight,     \* the request the owner awaits
    late,       \* the requests it gave up on
    server,     \* the database server's side of the stream
    count       \* calls made, attempts sent, answers and owners lost

ownerVars == <<owner, stream, flight, late>>
vars == <<client, queue, waiting, reply, wire, ownerVars, server, count>>

Jobs == {"none", "statement", "commit", "validated", "rollback", "close"}
OwnerPhases == {"active", "committing", "committed", "rolled_back", "failed",
                "commit_unknown"}
\* caller: the attempt to answer, 0 for none; code: what a close answers.
OwnerRecords == [phase : OwnerPhases, next : Nat, last : CommandKinds \cup {"none"},
                 job : Jobs, caller : Nat, code : Answers \cup {"none"}]
IdleOwner == [phase |-> "active", next |-> 1, last |-> "none", job |-> "none",
              caller |-> 0, code |-> "none"]

Init ==
    /\ client = NewClient /\ queue = <<>> /\ waiting = 0 /\ reply = "none"
    /\ wire = {} /\ owner = IdleOwner
    /\ stream = NewStream /\ flight = NoRequest /\ late = {}
    /\ server = [baton |-> 1, tx |-> "open", alive |-> TRUE, did |-> <<>>]
    /\ count = [calls |-> 0, tries |-> 0, lost |-> 0, owners |-> 0]

(***************************************************************************)
(* The application and the client library                                  *)
(***************************************************************************)
\* A call the library refuses at once changes nothing.
Call(call) ==
    /\ count.calls < MaxCalls
    /\ Admits(client, call)
    /\ client' = Admitted(client, call)
    /\ queue' = Append(queue, call)
    /\ count' = [count EXCEPT !.calls = @ + 1]
    /\ UNCHANGED <<waiting, reply, wire, ownerVars, server>>

Post(call) ==
    /\ client' = IF Issues(client, call) THEN Posted(client, call) ELSE client
    /\ waiting' = count.tries + 1
    /\ wire' = wire \cup {[kind |-> client'.pending.kind,
                           seq |-> client'.pending.seq, try |-> count.tries + 1]}
    /\ count' = [count EXCEPT !.tries = @ + 1]
    /\ UNCHANGED queue

\* The first call's turn: it sends a command, or ends without sending one
\* (refused by its state, or its signal was already aborted).
Turn ==
    /\ queue # <<>> /\ waiting = 0
    /\ LET call == Head(queue)
           sends == Issues(client, call) \/ Resends(client, call)
       IN  \/ sends /\ Post(call)
           \/ /\ ~sends \/ call # "dispose"
              /\ client' = Unsent(client, call)
              /\ queue' = Tail(queue)
              /\ UNCHANGED <<waiting, wire, count>>
    /\ UNCHANGED <<reply, ownerVars, server>>

Hear(answer) ==
    LET call == Head(queue)
        heard == SendPending(client, answer)
    IN  /\ client' = CallEnds(heard, call, answer = SuccessOf(client.pending.kind))
        /\ queue' = Tail(queue)
        /\ waiting' = 0
        /\ reply' = "none"

Answered ==
    /\ waiting # 0 /\ reply # "none"
    /\ Hear(reply)
    /\ UNCHANGED <<wire, ownerVars, server, count>>

\* A timeout, a cancellation or a broken connection: the command may not have
\* arrived yet, and its answer is not read.
NetworkFails ==
    /\ waiting # 0 /\ count.lost < MaxLosses
    /\ Hear("lost")
    /\ count' = [count EXCEPT !.lost = @ + 1]
    /\ UNCHANGED <<wire, ownerVars, server>>

(***************************************************************************)
(* The owner's commands                                                    *)
(***************************************************************************)
Answer(try, code) ==
    reply' = IF try # 0 /\ try = waiting THEN code ELSE reply

Close(code) == [owner EXCEPT !.job = "close", !.code = code]

\* An exact retry of the last completed command.
Replays(message) ==
    /\ message.seq + 1 = owner.next
    /\ message.kind = owner.last

\* The engine refuses the caller before the owner is reached.
EngineRefuses(message) ==
    /\ message \in wire
    /\ wire' = wire \ {message}
    /\ Answer(message.try, "unauthenticated")
    /\ UNCHANGED <<client, queue, waiting, ownerVars, server, count>>

\* The answer of a command that starts nothing, in the order of its checks;
\* "none" when the command has the record's attention.
ImmediateAnswer(message) ==
    CASE Replays(message) -> SuccessOf(message.kind)
      [] ~Replays(message) /\ owner.phase \in {"committing", "commit_unknown"} ->
            IF owner.job # "none" THEN "internal"
            ELSE IF message.kind = "commit" /\ message.seq = owner.next
            THEN "outcome_unknown" ELSE "unavailable"
      [] /\ ~Replays(message)
         /\ owner.phase \notin {"committing", "commit_unknown"}
         /\ owner.job # "none" ->
            IF owner.caller # 0 THEN "internal" ELSE "unavailable"
      [] OTHER -> IF owner.phase # "active" THEN "unavailable" ELSE "none"

\* The codes with which a command of the next sequence number can end the
\* transaction before it reaches the database.
Refusals(kind) == {"unavailable", "internal"} \cup
                  (IF kind = "statement" THEN {"sql_rejected"} ELSE {})

OwnerAnswers(message) ==
    /\ message \in wire
    /\ wire' = wire \ {message}
    /\ \/ /\ ImmediateAnswer(message) # "none"
          /\ Answer(message.try, ImmediateAnswer(message))
       \/ \* a command of another snapshot: answered, and nothing else
          /\ ImmediateAnswer(message) = "none"
          /\ Answer(message.try, "unavailable")
    /\ UNCHANGED <<client, queue, waiting, ownerVars, server, count>>

OwnerStarts(message) ==
    /\ message \in wire
    /\ ImmediateAnswer(message) = "none"
    /\ wire' = wire \ {message}
    /\ owner' \in
          IF message.seq # owner.next
          THEN {[Close("unavailable") EXCEPT !.caller = message.try]}
          ELSE {[owner EXCEPT !.job = message.kind, !.caller = message.try]} \cup
               {[Close(code) EXCEPT !.caller = message.try] :
                    code \in Refusals(message.kind)}
    /\ UNCHANGED <<client, queue, waiting, reply, stream, flight, late, server,
                   count>>

\* The deadline of an idle transaction: nobody is answered.
TimerFires ==
    /\ owner.phase = "active" /\ owner.job = "none"
    /\ owner' = [Close("none") EXCEPT !.caller = 0]
    /\ UNCHANGED <<client, queue, waiting, reply, wire, stream, flight, late,
                   server, count>>

(***************************************************************************)
(* The owner's jobs over the stream                                        *)
(***************************************************************************)
Ends(phase, code) ==
    /\ owner' = [owner EXCEPT !.phase = phase, !.job = "none", !.caller = 0,
                              !.code = "none"]
    /\ Answer(owner.caller, code)

\* The command is recorded as the last completed one, then answered.
Completes(kind, phase) ==
    /\ owner' = [owner EXCEPT !.phase = phase, !.next = @ + 1, !.last = kind,
                              !.job = "none", !.caller = 0, !.code = "none"]
    /\ Answer(owner.caller, SuccessOf(kind))

Sends(sql, seq) == flight' = Request(stream', sql, seq)

\* The job is done with its request; one that the server has not seen yet may
\* still arrive.
GiveUp == IF flight.sql # "none" /\ flight.result = "sent"
          THEN late' = late \cup {flight} ELSE UNCHANGED late
Lands == GiveUp /\ flight' = NoRequest

StatementSends ==
    /\ owner.job = "statement" /\ flight = NoRequest
    /\ \/ /\ UNCHANGED <<stream, owner>>
          /\ Sends("STATEMENT", owner.next)
       \/ \* the deadline passed before anything was sent
          /\ owner' = Close("internal")
          /\ UNCHANGED <<stream, flight>>
    /\ UNCHANGED <<client, queue, waiting, reply, wire, late, server, count>>

\* Mutant: a failed statement leaves the transaction active.
FailedStatementStays(trip) ==
    \/ Succeeds(flight, trip) /\ Completes("statement", "active")
    \/ ~Succeeds(flight, trip) /\ Ends("active", "internal")

\* A statement that did not succeed, could not be recorded or came too late
\* ends the transaction.
StatementOutcome(trip) ==
    \/ Succeeds(flight, trip) /\ Completes("statement", "active")
    \/ owner' \in {Close(code) : code \in Refusals("statement")} /\ UNCHANGED reply

StatementReturns ==
    /\ owner.job = "statement" /\ flight # NoRequest
    /\ \E trip \in RoundTrips(flight) :
          /\ stream' = ExecuteReturns(stream, server, trip)
          /\ StatementOutcome(trip)
    /\ Lands
    /\ UNCHANGED <<client, queue, waiting, wire, server, count>>

\* A validator's query runs in the transaction before COMMIT.
QuerySends ==
    /\ owner.job = "commit" /\ flight = NoRequest
    /\ UNCHANGED stream
    /\ Sends("STATEMENT", 0)
    /\ UNCHANGED <<client, queue, waiting, reply, wire, owner, late, server, count>>

\* A failed query rejects the commit, unless the verdict was already in.
QueryReturns ==
    /\ owner.job = "commit" /\ flight # NoRequest
    /\ \E trip \in RoundTrips(flight) :
          /\ stream' = ExecuteReturns(stream, server, trip)
          /\ owner' \in {[owner EXCEPT !.job = "validated"], Close("check_rejected")}
    /\ Lands
    /\ UNCHANGED <<client, queue, waiting, reply, wire, server, count>>

\* The checks are over: `committing` is recorded, or the commit is refused.
ChecksEnd ==
    /\ \/ owner.job = "commit" /\ flight = NoRequest /\ owner.phase = "active"
       \/ owner.job = "validated" /\ owner.phase = "active"
    /\ owner' \in {[owner EXCEPT !.job = "validated", !.phase = "committing"]} \cup
                  {Close(code) : code \in {"check_rejected", "unavailable", "internal"}}
    /\ UNCHANGED <<client, queue, waiting, reply, wire, stream, flight, late,
                   server, count>>

\* The owner commits once and while it holds the stream, so of what commit
\* may start with only these two happen.
CommitSends ==
    /\ owner.job = "validated" /\ owner.phase = "committing" /\ flight = NoRequest
    /\ \E expired \in BOOLEAN :
          LET start == CommitStarts(stream, expired)
          IN  /\ stream' = [stream EXCEPT !.attempted = @ \/ ~expired]
              /\ \/ start = "sends" /\ Sends("COMMIT", 0) /\ UNCHANGED <<owner, reply>>
                 \/ /\ start = "not_sent"
                    /\ owner' = Close("unavailable")
                    /\ UNCHANGED <<flight, reply>>
    /\ UNCHANGED <<client, queue, waiting, wire, late, server, count>>

CommitReturns ==
    /\ owner.job = "validated" /\ flight # NoRequest
    /\ \E trip \in RoundTrips(flight) :
          IF Succeeds(flight, trip)
          THEN /\ Completes("commit", "committed")
               /\ stream' = [stream EXCEPT !.open = FALSE]
          ELSE Ends("commit_unknown", "outcome_unknown") /\ UNCHANGED stream
    /\ Lands
    /\ UNCHANGED <<client, queue, waiting, wire, server, count>>

\* The rollback of a rollback command or of a close.  The binding check of the
\* command may still refuse it.
RollbackSends ==
    /\ owner.job \in {"rollback", "close"} /\ flight = NoRequest
    /\ stream' = RollbackStarts(stream)
    /\ Sends("ROLLBACK", 0)
    /\ UNCHANGED <<client, queue, waiting, reply, wire, owner, late, server, count>>

\* A rollback that fails changes nothing: the server expires the stream.
RollbackEnds ==
    /\ owner.job \in {"rollback", "close"} /\ flight # NoRequest
    /\ \E trip \in RoundTrips(flight) :
          stream' = RollbackReturns(stream, flight, trip)
    /\ IF owner.job = "rollback" THEN Completes("rollback", "rolled_back")
       ELSE Ends("failed", owner.code)
    /\ Lands
    /\ UNCHANGED <<client, queue, waiting, wire, server, count>>

\* The phase a successor finds, or settles on, in the record it reads.
PhaseAfterLoss ==
    CASE owner.phase = "committing" -> "commit_unknown"
      [] owner.phase = "active"     -> "failed"
      [] OTHER                      -> owner.phase

\* The owner's memory and its connection are gone; its caller hears nothing.
OwnerLost ==
    /\ count.owners < MaxOwnerLosses
    /\ owner' = [owner EXCEPT !.phase = PhaseAfterLoss, !.job = "none",
                              !.caller = 0, !.code = "none"]
    /\ stream' = [stream EXCEPT !.open = FALSE]
    /\ Lands
    /\ count' = [count EXCEPT !.owners = @ + 1]
    /\ UNCHANGED <<client, queue, waiting, reply, wire, server>>

(***************************************************************************)
(* The server                                                              *)
(***************************************************************************)
ServerRuns ==
    /\ flight.sql # "none" /\ flight.result = "sent"
    /\ \/ /\ Accepts(server, flight)
          /\ \E ok \in BOOLEAN :
                /\ server' = Runs(server, flight, ok)
                /\ flight' = [flight EXCEPT !.result = IF ok THEN "done" ELSE "error"]
       \/ /\ ~Accepts(server, flight)
          /\ flight' = [flight EXCEPT !.result = "refused"]
          /\ UNCHANGED server
    /\ UNCHANGED <<client, queue, waiting, reply, wire, owner, stream, late, count>>

LateArrives ==
    /\ \E request \in late :
          /\ late' = late \ {request}
          /\ \E ok \in BOOLEAN :
                server' = IF Accepts(server, request)
                          THEN Runs(server, request, ok) ELSE server
    /\ UNCHANGED <<client, queue, waiting, reply, wire, owner, stream, flight, count>>

ServerExpires ==
    /\ server.alive
    /\ server' = Expires(server)
    /\ UNCHANGED <<client, queue, waiting, reply, wire, ownerVars, count>>

Next ==
    \/ \E call \in Calls : Call(call)
    \/ Turn \/ Answered \/ NetworkFails
    \/ \E message \in wire : \/ EngineRefuses(message)
                             \/ OwnerAnswers(message)
                             \/ OwnerStarts(message)
    \/ TimerFires \/ StatementSends \/ StatementReturns \/ QuerySends
    \/ QueryReturns \/ ChecksEnd \/ CommitSends \/ CommitReturns
    \/ RollbackSends \/ RollbackEnds \/ OwnerLost
    \/ ServerRuns \/ LateArrives \/ ServerExpires

Spec == Init /\ [][Next]_vars

(***************************************************************************)
(* Properties                                                              *)
(***************************************************************************)
\* Every value has its type, a command never carries a sequence number the
\* client has not reached, and the server's stream lives exactly as long as
\* its transaction is open.
TypeOK ==
    /\ client \in Clients
    /\ \A i \in 1..Len(queue) : queue[i] \in Calls
    /\ waiting \in 0..count.tries
    /\ reply \in Answers \cup {"none"}
    /\ wire \subseteq [kind : CommandKinds, seq : 1..client.seq, try : 1..count.tries]
    /\ owner \in OwnerRecords
    /\ stream \in Streams
    /\ flight \in Requests /\ late \subseteq Requests
    /\ server.baton \in Nat /\ server.alive = (server.tx = "open")

\* The public status of the transaction object never lies about the database
\* (transaction.js sendPending, protocol.js rejectsCommand): `committed` only
\* after the server committed, `rolled_back` and `failed` only if it never
\* does, whatever was lost, retried, late or answered by a successor.
StatusIsTrue ==
    /\ client.state = "committed" => server.tx = "committed"
    /\ client.state \in {"rolled_back", "failed"} => server.tx # "committed"

\* The sequence number of the statements the client has confirmed.
ConfirmedCount == IF client.state = "committed" THEN client.seq - 2
                  ELSE client.seq - 1

\* The database commits only for a commit the client sent and still waits for
\* or has confirmed, and then exactly the statements the client had confirmed,
\* each once and in order: a retried, late or abandoned statement is not in it.
CommitsWhatWasConfirmed ==
    server.tx = "committed" =>
        /\ client.state = "committed" \/ client.pending.kind = "commit"
        /\ server.did = [i \in 1..ConfirmedCount |-> i]

\* While the owner holds the stream, counts it as usable and has nothing in
\* flight, its baton is the server's and no abandoned request can overtake the
\* next one, so neither COMMIT nor ROLLBACK is sent with a stale baton
\* (turso-http.ts execute, finish) unless the server gave the stream up.
BatonIsCurrent ==
    (/\ owner.phase \in {"active", "committing"}
     /\ ~stream.unusable /\ flight = NoRequest /\ server.alive)
    => stream.baton = server.baton /\ late = {}

\* The `closed` promise resolves once the object is done: no later call, answer
\* or late message changes the status the application read then.
ClosedIsFinal == [][client.closed => client'.state = client.state]_vars
=============================================================================
