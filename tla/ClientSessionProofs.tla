------------------------- MODULE ClientSessionProofs -------------------------
(***************************************************************************)
(* Proofs about module ClientSession: the type invariant, the three safety *)
(* invariants of its run and its action property, for every bound on the   *)
(* calls, the lost answers and the lost owners.                            *)
(*                                                                         *)
(* The status is true because of two chains.  A success is heard only for  *)
(* a command the owner has completed, and the owner completes a commit     *)
(* only after the server committed (Numbering, Success, Recorded).  A      *)
(* rejection settles a command only while the client has sent it once, and *)
(* an attempt has one answer, so that the command is neither on the wire   *)
(* nor in the owner's hands (Tokens, FirstAttempt).                        *)
(***************************************************************************)
EXTENDS ClientSession, TLAPS

(***************************************************************************)
(* The inductive invariant                                                 *)
(***************************************************************************)
\* The codes a close may carry: never a success.
CloseCodes == {"none", "unavailable", "internal", "sql_rejected", "check_rejected"}

\* What the other parts need of the types that TypeOK does not say.
Shapes ==
    /\ queue \in Seq(Calls)
    /\ count \in [calls : Nat, tries : Nat, lost : Nat, owners : Nat]
    /\ owner.caller \in 0..count.tries
    /\ owner.code \in CloseCodes
    /\ owner.next # 0
    /\ server \in Servers

Ambiguous(c) == c.failure = "unknown"
Done(c) == c.state \in {"committed", "rolled_back", "failed"}

\* The client's private fields agree with its status.
ClientOK ==
    /\ client.pending # NoPending =>
          client.pending.kind \in CommandKinds /\ client.pending.seq = client.seq
    /\ Ambiguous(client) => client.state = "unknown" /\ client.pending # NoPending
    /\ client.state = "unknown" => Ambiguous(client)
    /\ client.failure = "rejected" => client.state = "failed"
    /\ Done(client) => client.pending = NoPending
    /\ client.closed => client.disposed \/ Done(client)

\* A disposing call is the last one; a call that awaits an answer has a command.
QueueOK ==
    /\ waiting # 0 => queue # <<>> /\ client.pending # NoPending
    /\ \A i \in 1..Len(queue) :
          queue[i] = "dispose" => i = Len(queue) /\ client.disposing
    /\ client.disposed => client.disposing /\ queue = <<>>

\* An attempt is on the wire, in the owner's hands or answered: never two of
\* these, and what it carries is the pending command.
Tokens ==
    /\ \A m, n \in wire : m.try = n.try => m = n
    /\ \A m \in wire : m.try # owner.caller
    /\ \A m \in wire : m.try = waiting => m.seq = client.seq
    /\ \A m \in wire : m.seq = client.seq => m.kind = client.pending.kind
    /\ reply # "none" => /\ waiting # 0 /\ waiting # owner.caller
                         /\ \A m \in wire : m.try # waiting

\* The owner is at the client's command, or one ahead of what it has heard.
Numbering ==
    \/ owner.next = client.seq
    \/ /\ owner.next = client.seq + 1
       /\ client.pending # NoPending
       /\ owner.last = client.pending.kind

\* A success in the reply is a command the owner completed.
Success ==
    (waiting # 0 /\ reply = SuccessOf(client.pending.kind))
    => owner.next = client.seq + 1

Working == {"statement", "commit", "validated", "rollback"}
KindOf(job) == IF job = "validated" THEN "commit" ELSE job

\* Jobs and phases go together, and a job that is not a close works on the
\* client's pending command.
JobOK ==
    /\ owner.job \in Working =>
          /\ owner.next = client.seq
          /\ client.pending.kind = KindOf(owner.job)
          /\ owner.phase = "committing" => owner.job = "validated"
          /\ owner.phase \in {"active", "committing"}
    /\ owner.job = "close" => owner.phase \in {"active", "committing"}
    /\ owner.phase = "committing" => owner.job \in {"validated", "close"}

\* The request in flight is one the job sends, with the stream's baton.
FlightOK ==
    /\ flight # NoRequest =>
          /\ flight.baton = stream.baton
          /\ \/ owner.job = "statement" /\ flight.sql = "STATEMENT" /\ flight.seq = owner.next
             \/ owner.job = "commit" /\ flight.sql = "STATEMENT" /\ flight.seq = 0
             \/ /\ owner.job = "validated" /\ owner.phase = "committing"
                /\ flight.sql = "COMMIT" /\ flight.seq = 0
             \/ owner.job \in {"rollback", "close"} /\ flight.sql = "ROLLBACK" /\ flight.seq = 0
    /\ flight.sql = "COMMIT" /\ flight.result = "done" => server.tx = "committed"

CommitPhases == {"committing", "committed", "commit_unknown"}

\* What the record says of COMMIT and what became of it.
Recorded ==
    /\ owner.last = "commit" <=> owner.phase = "committed"
    /\ owner.phase = "committed" => server.tx = "committed"
    /\ server.tx = "committed" => \/ owner.phase \in {"committed", "commit_unknown"}
                                  \/ flight.sql = "COMMIT"
    /\ \A r \in late : r.sql = "COMMIT" => owner.phase = "commit_unknown"

\* The client still waits for a commit the owner has begun, or has confirmed it.
Tracked ==
    /\ (owner.phase \in CommitPhases \/ owner.job \in {"commit", "validated"})
       => client.state = "committed" \/ client.pending.kind = "commit"
    /\ client.state = "committed" => owner.phase = "committed" /\ owner.next = client.seq
    /\ owner.phase = "committed" =>
          client.state = "committed" \/ owner.next = client.seq + 1

Fresh == client.failure = "none" /\ client.pending # NoPending

\* The owner has done nothing for the pending command and commits nothing.
Untouched ==
    /\ owner.next = client.seq
    /\ owner.job \in {"none", "close"}
    /\ owner.phase \notin CommitPhases

\* The only attempt at a command: while it is on the wire, and once a
\* rejection is its answer, nothing has happened for it or can.
FirstAttempt ==
    Fresh =>
        /\ waiting # 0
        /\ \A m \in wire : m.seq = client.seq => m.try = waiting /\ Untouched
        /\ RejectsCommand(reply, client.pending.kind) => Untouched
        /\ owner.caller = waiting => owner.next = client.seq

\* The number of statements the server has run for the owner's record.
Ran == CASE owner.last = "commit" -> owner.next - 2
         [] owner.job = "statement" /\ flight.result = "done" -> owner.next
         [] OTHER -> owner.next - 1

\* While the transaction may still be committed, or has been, the server has
\* run the completed statements in order and no abandoned one can follow.
RanOK ==
    (\/ owner.phase \in CommitPhases
     \/ owner.phase = "active" /\ owner.job # "close")
    => /\ server.did = [i \in 1..Ran |-> i]
       /\ \A r \in late : r.seq = 0

\* The baton a usable stream holds is the server's until a reply moves it.
BatonOK ==
    (owner.phase \in {"active", "committing"} /\ ~stream.unusable /\ server.alive)
    => late = {} /\ (flight.result = "sent" => stream.baton = server.baton)

SessionInv ==
    /\ Shapes /\ ClientOK /\ QueueOK /\ Tokens /\ Numbering /\ Success /\ JobOK
    /\ FlightOK /\ Recorded /\ Tracked /\ FirstAttempt /\ RanOK /\ BatonOK

(***************************************************************************)
(* Types                                                                   *)
(***************************************************************************)
\* A client record keeps its type through every operation of the library
\* (transaction.js); admission opens or closes doors and leaves the rest alone.
LEMMA AdmittedFields ==
    ASSUME NEW c \in Clients, NEW call \in Calls
    PROVE  LET d == Admitted(c, call) IN
           /\ d \in Clients
           /\ d.pending = c.pending /\ d.failure = c.failure /\ d.state = c.state
           /\ d.seq = c.seq /\ d.disposed = c.disposed /\ d.closed = c.closed
           /\ d.disposing = (c.disposing \/ call = "dispose")
<1>1. CASE call \in Terminals
  <2>1. call # "dispose"
    BY <1>1 DEF Terminals
  <2>2. Admitted(c, call) = [c EXCEPT !.closing = call]
    BY <1>1, <2>1 DEF Admitted
  <2> QED
    BY <1>1, <2>1, <2>2 DEF Clients
<1>2. CASE call = "dispose"
  <2>1. call \notin Terminals
    BY <1>2 DEF Terminals
  <2>2. Admitted(c, call) = [c EXCEPT !.disposing = TRUE]
    BY <1>2, <2>1 DEF Admitted
  <2> QED
    BY <1>2, <2>2 DEF Clients
<1>3. CASE call \notin Terminals /\ call # "dispose"
  <2>1. Admitted(c, call) = c
    BY <1>3 DEF Admitted
  <2> QED
    BY <1>3, <2>1 DEF Clients
<1> QED
  BY <1>1, <1>2, <1>3

\* What a call that issues a command finds.
LEMMA IssuesFacts ==
    ASSUME NEW c, NEW call, Issues(c, call)
    PROVE  c.pending = NoPending /\ c.state = "active" /\ call # "retry"
<1>1. c.pending = NoPending
  BY DEF Issues
<1>2. CASE call = "execute"
  <2>1. AssertActive(c)
    BY <1>2 DEF Issues, Terminals
  <2> QED
    BY <1>1, <1>2, <2>1 DEF AssertActive
<1>3. CASE call \in Terminals
  <2>1. AssertActive(c)
    BY <1>3 DEF Issues, Terminals
  <2> QED
    BY <1>1, <1>3, <2>1 DEF AssertActive, Terminals
<1>4. CASE call = "dispose"
  <2>1. c.state = "active"
    BY <1>4 DEF Issues, Terminals
  <2> QED
    BY <1>1, <1>4, <2>1
<1>5. CASE call # "execute" /\ call \notin Terminals /\ call # "dispose"
  BY <1>5 DEF Issues
<1> QED
  BY <1>2, <1>3, <1>4, <1>5

\* Every call but a retry has a command of its own.
LEMMA CommandOfKind ==
    ASSUME NEW call \in Calls, call # "retry"
    PROVE  CommandOf(call) \in CommandKinds
<1>1. CASE call = "execute"
  BY <1>1 DEF CommandOf, CommandKinds
<1>2. CASE call = "dispose"
  BY <1>2 DEF CommandOf, CommandKinds, Terminals
<1>3. CASE call \in Terminals
  <2>1. CommandOf(call) = call
    BY <1>3 DEF CommandOf, Terminals
  <2> QED
    BY <1>3, <2>1 DEF CommandKinds
<1> QED
  BY <1>1, <1>2, <1>3 DEF Calls

\* Posting fixes the pending command and nothing else.
LEMMA PostedFields ==
    ASSUME NEW c \in Clients, NEW call \in Calls, Issues(c, call)
    PROVE  LET d == Posted(c, call) IN
           /\ d \in Clients
           /\ d.pending.kind \in CommandKinds /\ d.pending.seq = c.seq
           /\ d.pending # NoPending /\ d.failure = c.failure /\ d.state = c.state
           /\ d.seq = c.seq /\ d.disposed = c.disposed /\ d.closed = c.closed
           /\ d.disposing = c.disposing
<1>1. CommandOf(call) \in CommandKinds
  BY IssuesFacts, CommandOfKind
<1> QED
  BY <1>1 DEF Posted, Clients, CommandKinds, Terminals, NoPending

\* The end of a call changes only what admission and disposal read.
LEMMA CallEndsFields ==
    ASSUME NEW c \in Clients, NEW call, NEW success \in BOOLEAN
    PROVE  LET d == CallEnds(c, call, success) IN
           /\ d \in Clients
           /\ d.pending = c.pending /\ d.failure = c.failure /\ d.state = c.state
           /\ d.seq = c.seq /\ d.disposing = c.disposing
           /\ call = "dispose" => d.disposed /\ d.closed
           /\ call # "dispose" => d.disposed = c.disposed /\ d.closed = c.closed
<1>1. CASE call = "dispose"
  <2>1. CallEnds(c, call, success) = [c EXCEPT !.disposed = TRUE, !.closed = TRUE]
    BY <1>1 DEF CallEnds, Terminals
  <2> QED
    BY <1>1, <2>1 DEF Clients
<1>2. CASE call # "dispose" /\ call \in Terminals /\ ~success /\ c.pending.kind # call
  <2>1. CallEnds(c, call, success) = [c EXCEPT !.closing = "none"]
    BY <1>2 DEF CallEnds
  <2> QED
    BY <1>2, <2>1 DEF Clients
<1>3. CASE call # "dispose" /\ ~(call \in Terminals /\ ~success /\ c.pending.kind # call)
  <2>1. CallEnds(c, call, success) = c
    BY <1>3 DEF CallEnds
  <2> QED
    BY <1>3, <2>1 DEF Clients
<1> QED
  BY <1>1, <1>2, <1>3

\* No success is in the table of rejections, and none is a lost answer.
LEMMA SuccessIsNoRejection ==
    ASSUME NEW kind
    PROVE  /\ SuccessOf(kind) \in {"result", "committed", "rolled_back"}
           /\ ~RejectsCommand(SuccessOf(kind), kind)
<1>1. SuccessOf(kind) \in {"result", "committed", "rolled_back"}
  <2>1. CASE kind = "statement"
    BY <2>1 DEF SuccessOf
  <2>2. CASE kind = "commit"
    BY <2>2 DEF SuccessOf
  <2>3. CASE kind # "statement" /\ kind # "commit"
    BY <2>3 DEF SuccessOf
  <2> QED
    BY <2>1, <2>2, <2>3
<1> QED
  BY <1>1 DEF RejectsCommand

\* The three things an answer can do: confirm the pending command, reject it,
\* or leave it ambiguous.
LEMMA SendPendingFields ==
    ASSUME NEW c \in Clients, NEW answer
    PROVE  LET d == SendPending(c, answer) IN
           /\ d \in Clients
           /\ d.disposing = c.disposing /\ d.disposed = c.disposed
           /\ \/ /\ answer = SuccessOf(c.pending.kind)
                 /\ d.seq = c.seq + 1 /\ d.pending = NoPending /\ d.failure = "none"
                 /\ c.pending.kind = "statement" =>
                       d.state = "active" /\ d.closed = c.closed
                 /\ c.pending.kind # "statement" =>
                       d.state = TargetState(c.pending.kind) /\ d.closed
              \/ /\ answer # SuccessOf(c.pending.kind)
                 /\ c.failure = "none" /\ RejectsCommand(answer, c.pending.kind)
                 /\ d.seq = c.seq /\ d.pending = NoPending /\ d.failure = "rejected"
                 /\ d.state = "failed" /\ d.closed
              \/ /\ answer # SuccessOf(c.pending.kind)
                 /\ d.seq = c.seq /\ d.pending = c.pending /\ d.closed = c.closed
                 /\ \/ c.failure # "none" /\ d.failure = c.failure /\ d.state = c.state
                    \/ d.failure = "unknown" /\ d.state = "unknown"
<1> DEFINE d == SendPending(c, answer)
<1>1. CASE answer = SuccessOf(c.pending.kind)
  <2>1. d = Confirmed(c)
    BY <1>1, SuccessIsNoRejection DEF SendPending
  <2>2. TargetState(c.pending.kind) \in {"committed", "rolled_back"}
    BY DEF TargetState
  <2>3. NoPending \in [kind : CommandKinds \cup {"none"}, seq : Nat]
    BY DEF NoPending
  <2>4. d \in Clients
    <3>1. c.seq + 1 \in Nat \ {0}
      BY DEF Clients
    <3>2. (c.closed \/ c.pending.kind # "statement") \in BOOLEAN
      OBVIOUS
    <3> QED
      BY <2>1, <2>2, <2>3, <3>1, <3>2, Zenon DEF Confirmed, Clients
  <2>5. /\ d.disposing = c.disposing /\ d.disposed = c.disposed
        /\ d.seq = c.seq + 1 /\ d.pending = NoPending /\ d.failure = "none"
        /\ d.state = IF c.pending.kind = "statement" THEN "active"
                     ELSE TargetState(c.pending.kind)
        /\ d.closed = (c.closed \/ c.pending.kind # "statement")
    BY <2>1 DEF Confirmed, Clients
  <2>6. c.closed \in BOOLEAN
    BY DEF Clients
  <2> HIDE DEF d
  <2>7. /\ c.pending.kind = "statement" => d.state = "active" /\ d.closed = c.closed
        /\ c.pending.kind # "statement" =>
              d.state = TargetState(c.pending.kind) /\ d.closed
    BY <2>5, <2>6
  <2> QED
    BY <1>1, <2>4, <2>5, <2>7 DEF d
<1>2. CASE answer # SuccessOf(c.pending.kind) /\ c.failure # "none"
  <2>1. d = c
    BY <1>2 DEF SendPending
  <2> QED
    BY <1>2, <2>1
<1>3. CASE /\ answer # SuccessOf(c.pending.kind)
           /\ c.failure = "none" /\ RejectsCommand(answer, c.pending.kind)
  <2>1. d = [c EXCEPT !.pending = NoPending, !.failure = "rejected",
                      !.state = "failed", !.closed = TRUE]
    BY <1>3 DEF SendPending
  <2>2. NoPending \in [kind : CommandKinds \cup {"none"}, seq : Nat]
    BY DEF NoPending
  <2> QED
    BY <1>3, <2>1, <2>2 DEF Clients
<1>4. CASE /\ answer # SuccessOf(c.pending.kind)
           /\ c.failure = "none" /\ ~RejectsCommand(answer, c.pending.kind)
  <2>1. d = [c EXCEPT !.failure = "unknown", !.state = "unknown"]
    BY <1>4 DEF SendPending
  <2> QED
    BY <1>4, <2>1 DEF Clients
<1> QED
  BY <1>1, <1>2, <1>3, <1>4

(***************************************************************************)
(* The client's steps                                                      *)
(***************************************************************************)
\* The parts that speak of the owner and the server only.
DatabaseOK == FlightOK /\ Recorded /\ RanOK /\ BatonOK

\* A step of the client leaves them alone.
LEMMA QuietDatabase ==
    ASSUME DatabaseOK, ownerVars' = ownerVars, server' = server
    PROVE  DatabaseOK'
<1>1. owner' = owner /\ stream' = stream /\ flight' = flight /\ late' = late
  BY DEF ownerVars
<1>2. FlightOK'
  BY <1>1 DEF FlightOK, DatabaseOK
<1>3. Recorded'
  BY <1>1 DEF Recorded, DatabaseOK
<1>4. RanOK'
  <2>1. Ran' = Ran
    BY <1>1 DEF Ran
  <2> QED
    BY <1>1, <2>1 DEF RanOK, DatabaseOK
<1>5. BatonOK'
  BY <1>1 DEF BatonOK, DatabaseOK
<1> QED
  BY <1>2, <1>3, <1>4, <1>5 DEF DatabaseOK

\* The typing of the owner's side does not read the client's.
DatabaseTypes ==
    /\ owner \in OwnerRecords /\ stream \in Streams
    /\ flight \in Requests /\ late \subseteq Requests
    /\ server \in Servers /\ server.alive = (server.tx = "open")
    /\ owner.code \in CloseCodes /\ owner.next # 0

\* A step of the client leaves the types of the other side alone.
LEMMA QuietTypes ==
    ASSUME DatabaseTypes, ownerVars' = ownerVars, server' = server
    PROVE  DatabaseTypes'
BY DEF DatabaseTypes, ownerVars

ClientTypes ==
    /\ client \in Clients
    /\ queue \in Seq(Calls)
    /\ count \in [calls : Nat, tries : Nat, lost : Nat, owners : Nat]
    /\ waiting \in 0..count.tries
    /\ reply \in Answers \cup {"none"}
    /\ wire \subseteq [kind : CommandKinds, seq : 1..client.seq, try : 1..count.tries]
    /\ owner.caller \in 0..count.tries

\* The types, split along the two sides.
LEMMA TypeSides == TypeOK /\ Shapes <=> ClientTypes /\ DatabaseTypes
<1>1. queue \in Seq(Calls) => \A i \in 1..Len(queue) : queue[i] \in Calls
  OBVIOUS
<1>2. server \in Servers => server.baton \in Nat
  BY DEF Servers
<1> QED
  BY <1>1, <1>2 DEF TypeOK, Shapes, ClientTypes, DatabaseTypes

\* The parts that relate the client to its attempts and to the owner.
SessionOK ==
    /\ ClientOK /\ QueueOK /\ Tokens /\ Numbering /\ Success /\ JobOK
    /\ Tracked /\ FirstAttempt

Inv == ClientTypes /\ DatabaseTypes /\ SessionOK /\ DatabaseOK

\* The invariant as the proofs split it is the one stated above.
LEMMA InvIs == Inv <=> TypeOK /\ SessionInv
BY TypeSides DEF Inv, SessionInv, SessionOK, DatabaseOK

\* The application calls the library (transaction.js execute, commit, ...).
LEMMA CallKeeps ==
    ASSUME Inv, NEW call \in Calls, Call(call)
    PROVE  Inv'
<1> USE DEF Inv, SessionOK
<1>1. /\ ownerVars' = ownerVars /\ server' = server /\ waiting' = waiting
      /\ reply' = reply /\ wire' = wire /\ owner' = owner
  BY DEF Call, ownerVars
<1>2. DatabaseTypes' /\ DatabaseOK'
  BY <1>1, QuietDatabase, QuietTypes
<1>3. /\ client' = Admitted(client, call) /\ queue' = Append(queue, call)
      /\ Admits(client, call) /\ count' = [count EXCEPT !.calls = @ + 1]
  BY DEF Call
<1>4. client \in Clients
  BY DEF ClientTypes
<1>5. /\ client' \in Clients
      /\ client'.pending = client.pending /\ client'.failure = client.failure
      /\ client'.state = client.state /\ client'.seq = client.seq
      /\ client'.disposed = client.disposed /\ client'.closed = client.closed
      /\ client'.disposing = (client.disposing \/ call = "dispose")
  BY <1>3, <1>4, AdmittedFields
<1>6. ~client.disposing
  BY <1>3 DEF Admits
<1>7. /\ count' \in [calls : Nat, tries : Nat, lost : Nat, owners : Nat]
      /\ count'.tries = count.tries
  BY <1>3 DEF ClientTypes
<1>8. ClientTypes'
  BY <1>1, <1>3, <1>5, <1>7 DEF ClientTypes
<1>9. ClientOK'
  BY <1>5 DEF ClientOK, Ambiguous, Done
<1>10. QueueOK'
  <2>1. Len(queue') = Len(queue) + 1 /\ queue' # <<>>
    BY <1>3 DEF ClientTypes
  <2>2. \A i \in 1..Len(queue) : queue'[i] = queue[i] /\ queue[i] # "dispose"
    BY <1>3, <1>6 DEF ClientTypes, QueueOK
  <2>3. queue'[Len(queue')] = call
    BY <1>3 DEF ClientTypes
  <2>4. client.disposing \in BOOLEAN /\ client'.disposing \in BOOLEAN
    BY <1>4, <1>5 DEF Clients
  <2>5. call = "dispose" => client'.disposing
    BY <1>5
  <2>6. Len(queue) \in Nat
    BY DEF ClientTypes
  <2>7. \A i \in 1..Len(queue') : queue'[i] = "dispose" => i = Len(queue') /\ client'.disposing
    BY <2>1, <2>2, <2>3, <2>5, <2>6
  <2>8. ~client'.disposed
    BY <1>5, <1>6 DEF QueueOK
  <2> QED
    BY <1>1, <1>5, <2>1, <2>7, <2>8 DEF QueueOK
<1>11. Tokens' /\ Numbering' /\ Success'
  BY <1>1, <1>5 DEF Tokens, Numbering, Success
<1>12. JobOK' /\ Tracked'
  BY <1>1, <1>5 DEF JobOK, Tracked
<1>13. FirstAttempt'
  BY <1>1, <1>5 DEF FirstAttempt, Fresh, Untouched
<1> QED
  BY <1>2, <1>8, <1>9, <1>10, <1>11, <1>12, <1>13

\* Without a pending command the owner has nothing of the client's in hand.
LEMMA NothingPending ==
    ASSUME Inv, client.pending = NoPending, client.state # "committed"
    PROVE  Untouched /\ (\A m \in wire : m.seq # client.seq)
<1> USE DEF Inv, SessionOK
<1>1. client.pending.kind = "none"
  BY DEF NoPending
<1>2. owner.next = client.seq
  BY DEF Numbering
<1>3. owner.job \notin Working
  BY <1>1 DEF JobOK, KindOf, Working
<1>4. owner.job \in {"none", "close"}
  BY <1>3 DEF DatabaseTypes, OwnerRecords, Jobs, Working
<1>5. owner.phase \notin CommitPhases
  BY <1>1 DEF Tracked
<1>6. \A m \in wire : m.kind # "none"
  BY DEF ClientTypes, CommandKinds, Terminals
<1> QED
  BY <1>1, <1>2, <1>4, <1>5, <1>6 DEF Untouched, Tokens

\* A call's turn: it posts its command, or sends the pending one again.
LEMMA PostKeeps ==
    ASSUME Inv, waiting = 0, queue # <<>>, NEW call \in Calls,
           Issues(client, call) \/ Resends(client, call), Post(call),
           reply' = reply, ownerVars' = ownerVars, server' = server
    PROVE  Inv'
<1> USE DEF Inv, SessionOK
<1> DEFINE new == [kind |-> client'.pending.kind, seq |-> client'.pending.seq,
                   try |-> count.tries + 1]
<1>1. owner' = owner /\ queue' = queue
  BY DEF Post, ownerVars
<1>2. DatabaseTypes' /\ DatabaseOK'
  BY QuietDatabase, QuietTypes
<1>3. client \in Clients
  BY DEF ClientTypes
<1>4. /\ client' \in Clients /\ client'.failure = client.failure
      /\ client'.state = client.state /\ client'.seq = client.seq
      /\ client'.disposed = client.disposed /\ client'.closed = client.closed
      /\ client'.disposing = client.disposing
      /\ client'.pending # NoPending /\ client'.pending.kind \in CommandKinds
      /\ client'.pending.seq = client.seq
      /\ \/ Issues(client, call)
         \/ client' = client /\ client.pending # NoPending
  <2>1. CASE Issues(client, call)
    <3>1. client' = Posted(client, call)
      BY <2>1 DEF Post
    <3> QED
      BY <2>1, <3>1, <1>3, PostedFields
  <2>2. CASE ~Issues(client, call)
    <3>1. client' = client
      BY <2>2 DEF Post
    <3>2. client.pending # NoPending
      BY <2>2 DEF Resends
    <3> QED
      BY <3>1, <3>2, <1>3 DEF ClientOK
  <2> QED
    BY <2>1, <2>2
<1>5. /\ waiting' = count.tries + 1 /\ wire' = wire \cup {new}
      /\ count' = [count EXCEPT !.tries = @ + 1]
  BY DEF Post
<1>6. /\ count' \in [calls : Nat, tries : Nat, lost : Nat, owners : Nat]
      /\ count'.tries = count.tries + 1 /\ count.tries \in Nat
  BY <1>5 DEF ClientTypes
<1>7. client.seq \in Nat \ {0}
  BY <1>3 DEF Clients
<1>8. /\ new.kind = client'.pending.kind /\ new.kind \in CommandKinds
      /\ new.seq = client.seq /\ new.try = count.tries + 1
  BY <1>4
<1>9. new \in [kind : CommandKinds, seq : 1..client'.seq, try : 1..count'.tries]
  BY <1>4, <1>6, <1>7
<1> HIDE DEF new
<1>10. wire' \subseteq [kind : CommandKinds, seq : 1..client'.seq, try : 1..count'.tries]
  <2>1. \A m \in wire : m \in [kind : CommandKinds, seq : 1..client'.seq, try : 1..count'.tries]
    BY <1>4, <1>6 DEF ClientTypes
  <2> QED
    BY <1>5, <1>9, <2>1
<1>11. ClientTypes'
  BY <1>1, <1>4, <1>5, <1>6, <1>10 DEF ClientTypes
<1>12. \A m \in wire : m.try \in 1..count.tries /\ m.try # waiting' /\ m.try # new.try
  BY <1>5, <1>6, <1>8 DEF ClientTypes
<1>13. owner.caller # waiting' /\ owner.caller # new.try
  BY <1>5, <1>6, <1>8 DEF ClientTypes
<1>14. reply = "none"
  BY DEF Tokens
<1>15. ClientOK'
  <2>1. Issues(client, call) => client.state = "active"
    BY IssuesFacts
  <2> QED
    BY <1>4, <2>1 DEF ClientOK, Ambiguous, Done
<1>16. QueueOK'
  BY <1>1, <1>4 DEF QueueOK
<1>17. CASE client' = client /\ client.pending # NoPending
  <2>1. ~Fresh
    BY DEF FirstAttempt
  <2>2. client.pending.kind = new.kind /\ new.seq = client.seq
    BY <1>8, <1>17
  <2>3. Tokens'
    <3>1. \A m, n \in wire' : m.try = n.try => m = n
      BY <1>5, <1>12 DEF Tokens
    <3>2. \A m \in wire' : /\ m.try # owner'.caller
                           /\ m.try = waiting' => m.seq = client'.seq
                           /\ m.seq = client'.seq => m.kind = client'.pending.kind
      BY <1>1, <1>5, <1>12, <1>13, <1>17, <2>2 DEF Tokens
    <3> QED
      BY <1>14, <3>1, <3>2 DEF Tokens
  <2>4. Numbering' /\ JobOK' /\ Tracked'
    BY <1>1, <1>17 DEF Numbering, JobOK, Tracked
  <2>5. Success'
    <3>1. reply' # SuccessOf(client'.pending.kind)
      BY <1>14, SuccessIsNoRejection
    <3> QED
      BY <3>1 DEF Success
  <2>6. FirstAttempt'
    BY <2>1, <1>17 DEF FirstAttempt, Fresh
  <2> QED
    BY <1>2, <1>11, <1>15, <1>16, <2>3, <2>4, <2>5, <2>6
<1>18. CASE Issues(client, call)
  <2>1. client.pending = NoPending /\ client.state = "active"
    BY <1>18, IssuesFacts
  <2>2. Untouched /\ (\A m \in wire : m.seq # client.seq)
    BY <2>1, NothingPending
  <2>3. Tokens'
    <3>1. \A m, n \in wire' : m.try = n.try => m = n
      BY <1>5, <1>12 DEF Tokens
    <3>2. \A m \in wire' : /\ m.try # owner'.caller
                           /\ m.try = waiting' => m.seq = client'.seq
                           /\ m.seq = client'.seq => m.kind = client'.pending.kind
      BY <1>1, <1>4, <1>5, <1>8, <1>12, <1>13, <2>2 DEF Tokens
    <3> QED
      BY <1>14, <3>1, <3>2 DEF Tokens
  <2>4. Untouched'
    BY <1>1, <1>4, <2>2 DEF Untouched
  <2>5. Numbering' /\ JobOK'
    BY <1>1, <2>4 DEF Numbering, JobOK, Untouched, Working, CommitPhases
  <2>6. Tracked'
    BY <1>1, <1>4, <2>1, <2>4 DEF Tracked, Untouched, CommitPhases
  <2>7. Success'
    <3>1. reply' # SuccessOf(client'.pending.kind)
      BY <1>14, SuccessIsNoRejection
    <3> QED
      BY <3>1 DEF Success
  <2>8. FirstAttempt'
    <3>1. waiting' # 0
      BY <1>5, <1>6
    <3>2. \A m \in wire' : m.seq = client'.seq => m.try = waiting' /\ Untouched'
      <4>1. client'.seq = client.seq BY <1>4
      <4>2. \A m \in wire : m.seq # client'.seq BY <2>2, <4>1
      <4>3. new.try = waiting' BY <1>5, <1>8
      <4> QED
        BY <1>5, <2>4, <4>2, <4>3
    <3> QED
      BY <1>1, <1>13, <2>4, <3>1, <3>2 DEF FirstAttempt, Untouched
  <2> QED
    BY <1>2, <1>11, <1>15, <1>16, <2>3, <2>5, <2>6, <2>7, <2>8
<1> QED
  BY <1>4, <1>17, <1>18

\* The first call leaves the queue; a disposing call was the last one.
LEMMA QueueMoves ==
    ASSUME Inv, queue # <<>>, queue' = Tail(queue), waiting' = 0,
           client'.disposing = client.disposing,
           Head(queue) = "dispose" => client'.disposed,
           Head(queue) # "dispose" => client'.disposed = client.disposed
    PROVE  QueueOK' /\ queue' \in Seq(Calls) /\ Head(queue) \in Calls
<1> USE DEF Inv, SessionOK
<1>1. queue \in Seq(Calls) /\ Len(queue) \in Nat /\ Len(queue) # 0
  BY DEF ClientTypes
<1>2. /\ queue' \in Seq(Calls) /\ Len(queue') = Len(queue) - 1
      /\ \A i \in 1..Len(queue') : queue'[i] = queue[i + 1]
      /\ Head(queue) = queue[1] /\ Head(queue) \in Calls
  BY <1>1
<1>3. \A i \in 1..Len(queue) :
          queue[i] = "dispose" => i = Len(queue) /\ client.disposing
  BY DEF QueueOK
<1>4. \A i \in 1..Len(queue') : queue'[i] = "dispose" => i = Len(queue') /\ client'.disposing
  <2>1. SUFFICES ASSUME NEW i \in 1..Len(queue'), queue'[i] = "dispose"
                 PROVE  i = Len(queue') /\ client'.disposing
    OBVIOUS
  <2>2. i + 1 \in 1..Len(queue) /\ queue[i + 1] = "dispose" /\ i \in Nat
    BY <1>1, <1>2, <2>1
  <2>3. i + 1 = Len(queue) /\ client.disposing
    BY <1>3, <2>2
  <2>4. client'.disposing
    BY <2>3
  <2>5. i = Len(queue')
    <3>1. i = Len(queue) - 1
      BY <2>2, <2>3
    <3>2. Len(queue') = Len(queue) - 1
      BY <1>2
    <3> QED
      BY <3>1, <3>2, Zenon
  <2> QED
    BY <2>4, <2>5
<1>6. Head(queue) = "dispose" => client.disposing /\ queue' = <<>>
  <2>1. SUFFICES ASSUME Head(queue) = "dispose" PROVE client.disposing /\ queue' = <<>>
    OBVIOUS
  <2>2. 1 \in 1..Len(queue) /\ queue[1] = "dispose"
    BY <1>1, <1>2, <2>1
  <2>3. Len(queue) = 1 /\ client.disposing
    BY <1>3, <2>2
  <2>4. Len(queue') = 0
    BY <1>2, <2>3
  <2> QED
    BY <1>2, <2>3, <2>4
<1>5. ~client.disposed
  BY DEF QueueOK
<1> QED
  BY <1>2, <1>4, <1>5, <1>6 DEF QueueOK

\* A call ends without sending anything.
LEMMA UnsentKeeps ==
    ASSUME Inv, waiting = 0, queue # <<>>,
           client' = Unsent(client, Head(queue)), queue' = Tail(queue),
           waiting' = waiting, wire' = wire, count' = count, reply' = reply,
           ownerVars' = ownerVars, server' = server
    PROVE  Inv'
<1> USE DEF Inv, SessionOK
<1> DEFINE call == Head(queue)
           success == call \in Terminals /\ client.state = TargetState(call)
<1>1. owner' = owner
  BY DEF ownerVars
<1>2. DatabaseTypes' /\ DatabaseOK'
  BY QuietDatabase, QuietTypes
<1>3. client \in Clients
  BY DEF ClientTypes
<1>4. success \in BOOLEAN /\ client' = CallEnds(client, call, success)
  BY DEF Unsent
<1> HIDE DEF call, success
<1>5. /\ client' \in Clients
      /\ client'.pending = client.pending /\ client'.failure = client.failure
      /\ client'.state = client.state
      /\ client'.seq = client.seq /\ client'.disposing = client.disposing
      /\ call = "dispose" => client'.disposed /\ client'.closed
      /\ call # "dispose" => client'.disposed = client.disposed /\ client'.closed = client.closed
  BY <1>3, <1>4, CallEndsFields
<1>6. QueueOK' /\ queue' \in Seq(Calls)
  BY <1>5, QueueMoves DEF call
<1>7. ClientTypes'
  BY <1>1, <1>5, <1>6 DEF ClientTypes
<1>8. ClientOK'
  BY <1>5 DEF ClientOK, Ambiguous, Done
<1>9. Tokens' /\ Numbering' /\ Success' /\ JobOK' /\ Tracked'
  BY <1>1, <1>5 DEF Tokens, Numbering, Success, JobOK, Tracked
<1>10. FirstAttempt'
  BY <1>1, <1>5 DEF FirstAttempt, Fresh, Untouched
<1> QED
  BY <1>2, <1>6, <1>7, <1>8, <1>9, <1>10

\* The turn of the first call, both ways it can go.
LEMMA TurnKeeps ==
    ASSUME Inv, Turn
    PROVE  Inv'
<1>1. /\ queue # <<>> /\ waiting = 0 /\ reply' = reply
      /\ ownerVars' = ownerVars /\ server' = server
  BY DEF Turn
<1>2. Head(queue) \in Calls
  BY <1>1 DEF Inv, ClientTypes
<1>3. CASE /\ Issues(client, Head(queue)) \/ Resends(client, Head(queue))
           /\ Post(Head(queue))
  BY <1>1, <1>2, <1>3, PostKeeps
<1>4. CASE /\ client' = Unsent(client, Head(queue))
           /\ queue' = Tail(queue)
           /\ UNCHANGED <<waiting, wire, count>>
  BY <1>1, <1>4, UnsentKeeps
<1> QED
  BY <1>3, <1>4 DEF Turn

\* An answer reaches the client: only a success the owner recorded confirms the
\* pending command, and a rejection of its only attempt leaves nothing behind.
LEMMA HearKeeps ==
    ASSUME Inv, waiting # 0, NEW answer, answer = reply \/ answer = "lost",
           Hear(answer), wire' = wire, ownerVars' = ownerVars, server' = server,
           count' \in [calls : Nat, tries : Nat, lost : Nat, owners : Nat],
           count'.tries = count.tries
    PROVE  Inv'
<1> USE DEF Inv, SessionOK
<1> DEFINE call == Head(queue)
           success == (answer = SuccessOf(client.pending.kind))
           heard == SendPending(client, answer)
<1>1. owner' = owner
  BY DEF ownerVars
<1>2. DatabaseTypes' /\ DatabaseOK'
  BY QuietDatabase, QuietTypes
<1>3. client \in Clients /\ queue # <<>> /\ client.pending # NoPending /\ ~Done(client)
  BY DEF ClientTypes, QueueOK, ClientOK
<1>4. /\ success \in BOOLEAN /\ client' = CallEnds(heard, call, success)
      /\ queue' = Tail(queue) /\ waiting' = 0 /\ reply' = "none"
  BY DEF Hear
<1>5. success => owner.next = client.seq + 1
  <2>1. "lost" # SuccessOf(client.pending.kind)
    BY SuccessIsNoRejection
  <2> QED
    BY <2>1 DEF Success
<1>6. client.failure = "none" /\ RejectsCommand(answer, client.pending.kind)
      => Untouched /\ (\A m \in wire : m.seq # client.seq)
  <2>1. SUFFICES ASSUME client.failure = "none", RejectsCommand(answer, client.pending.kind)
                 PROVE  Untouched /\ (\A m \in wire : m.seq # client.seq)
    OBVIOUS
  <2>2. answer = reply /\ reply # "none"
    BY <2>1 DEF RejectsCommand
  <2>3. Fresh
    BY <2>1, <1>3 DEF Fresh
  <2> QED
    BY <2>1, <2>2, <2>3 DEF FirstAttempt, Tokens
<1>7. /\ heard \in Clients
      /\ heard.disposing = client.disposing /\ heard.disposed = client.disposed
      /\ \/ /\ success
            /\ heard.seq = client.seq + 1 /\ heard.pending = NoPending
            /\ heard.failure = "none"
            /\ client.pending.kind = "statement" =>
                  heard.state = "active" /\ heard.closed = client.closed
            /\ client.pending.kind # "statement" =>
                  heard.state = TargetState(client.pending.kind) /\ heard.closed
         \/ /\ ~success
            /\ client.failure = "none" /\ RejectsCommand(answer, client.pending.kind)
            /\ heard.seq = client.seq /\ heard.pending = NoPending
            /\ heard.failure = "rejected" /\ heard.state = "failed" /\ heard.closed
         \/ /\ ~success
            /\ heard.seq = client.seq /\ heard.pending = client.pending
            /\ heard.closed = client.closed
            /\ \/ /\ client.failure # "none" /\ heard.failure = client.failure
                  /\ heard.state = client.state
               \/ heard.failure = "unknown" /\ heard.state = "unknown"
  BY <1>3, SendPendingFields
<1> HIDE DEF call, success, heard
<1>8. /\ client' \in Clients
      /\ client'.pending = heard.pending /\ client'.failure = heard.failure
      /\ client'.state = heard.state
      /\ client'.seq = heard.seq /\ client'.disposing = heard.disposing
      /\ call = "dispose" => client'.disposed /\ client'.closed
      /\ call # "dispose" => client'.disposed = heard.disposed /\ client'.closed = heard.closed
  BY <1>4, <1>7, CallEndsFields
<1>9. QueueOK' /\ queue' \in Seq(Calls)
  BY <1>3, <1>4, <1>7, <1>8, QueueMoves DEF call
<1>10. client.seq \in Nat \ {0} /\ client'.seq \in {client.seq, client.seq + 1}
  BY <1>3, <1>7, <1>8 DEF Clients
<1>11. ClientTypes'
  <2>1. \A m \in wire : m \in [kind : CommandKinds, seq : 1..client'.seq, try : 1..count.tries]
    BY <1>10 DEF ClientTypes
  <2> QED
    BY <1>1, <1>4, <1>8, <1>9, <2>1 DEF ClientTypes
<1>12. \A m \in wire : m.seq \in 1..client.seq /\ m.try # 0
  BY DEF ClientTypes
<1>13. Success'
  BY <1>4 DEF Success
<1>14. CASE success
  <2>1. /\ client'.seq = client.seq + 1 /\ client'.pending = NoPending
        /\ client'.failure = "none"
        /\ client.pending.kind = "statement" => client'.state = "active"
        /\ client.pending.kind # "statement" =>
              client'.state = TargetState(client.pending.kind)
    BY <1>7, <1>8, <1>14
  <2>2. client.pending.kind \in CommandKinds
    BY <1>3 DEF ClientOK
  <2>3. client.pending.kind = "commit" <=> client'.state = "committed"
    BY <2>1, <2>2 DEF TargetState, CommandKinds, Terminals
  <2>4. client'.state \in {"active", "committed", "rolled_back"}
    BY <2>1, <2>2 DEF TargetState
  <2>5. owner.next = client.seq + 1 /\ owner.next # client.seq
    BY <1>5, <1>10, <1>14
  <2>6. client'.closed => client'.disposed \/ Done(client)'
    <3>1. CASE client.pending.kind = "statement"
      BY <1>3, <1>7, <1>8, <1>14, <3>1 DEF ClientOK, Done
    <3>2. CASE client.pending.kind # "statement"
      BY <2>1, <3>2 DEF Done, TargetState
    <3> QED
      BY <3>1, <3>2
  <2>7. ClientOK'
    BY <2>1, <2>4, <2>6 DEF ClientOK, Ambiguous, Done
  <2>8. \A m \in wire : m.seq # client'.seq
    BY <1>10, <1>12, <2>1
  <2>9. Tokens'
    BY <1>1, <1>4, <1>12, <2>8 DEF Tokens
  <2>10. Numbering' /\ JobOK'
    BY <1>1, <2>1, <2>5 DEF Numbering, JobOK
  <2>11. owner.last = client.pending.kind
    BY <2>5 DEF Numbering
  <2>12. Tracked'
    BY <1>1, <1>3, <2>1, <2>3, <2>5, <2>11 DEF Tracked, Recorded, DatabaseOK, Done
  <2>13. FirstAttempt'
    BY <2>1 DEF FirstAttempt, Fresh
  <2> QED
    BY <1>2, <1>9, <1>11, <1>13, <2>7, <2>9, <2>10, <2>12, <2>13
<1>15. CASE /\ client.failure = "none" /\ RejectsCommand(answer, client.pending.kind)
            /\ heard.seq = client.seq /\ heard.pending = NoPending
            /\ heard.failure = "rejected" /\ heard.state = "failed"
  <2>1. Untouched /\ (\A m \in wire : m.seq # client.seq)
    BY <1>6, <1>15
  <2>2. /\ client'.seq = client.seq /\ client'.pending = NoPending
        /\ client'.failure = "rejected" /\ client'.state = "failed"
    BY <1>8, <1>15
  <2>3. ClientOK'
    BY <2>2 DEF ClientOK, Ambiguous, Done
  <2>4. Tokens'
    BY <1>1, <1>4, <1>12, <2>1, <2>2 DEF Tokens
  <2>5. Numbering' /\ JobOK' /\ Tracked'
    BY <1>1, <2>1, <2>2 DEF Numbering, JobOK, Tracked, Untouched, Working, CommitPhases
  <2>6. FirstAttempt'
    BY <2>2 DEF FirstAttempt, Fresh
  <2> QED
    BY <1>2, <1>9, <1>11, <1>13, <2>3, <2>4, <2>5, <2>6
<1>16. CASE /\ heard.seq = client.seq /\ heard.pending = client.pending
            /\ heard.closed = client.closed
            /\ \/ /\ client.failure # "none" /\ heard.failure = client.failure
                  /\ heard.state = client.state
               \/ heard.failure = "unknown" /\ heard.state = "unknown"
  <2>1. client.failure # "rejected"
    BY <1>3 DEF ClientOK, Done
  <2>2. /\ client'.seq = client.seq /\ client'.pending = client.pending
        /\ client'.failure = "unknown" /\ client'.state = "unknown"
    BY <1>3, <1>8, <1>16, <2>1 DEF ClientOK, Clients, Ambiguous
  <2>3. client'.closed => client'.disposed \/ Done(client)'
    BY <1>3, <1>7, <1>8, <1>16 DEF ClientOK, Done
  <2>4. ClientOK'
    BY <1>3, <2>2, <2>3 DEF ClientOK, Ambiguous, Done
  <2>5. Tokens'
    BY <1>1, <1>4, <1>12, <2>2 DEF Tokens
  <2>6. Numbering' /\ JobOK'
    BY <1>1, <2>2 DEF Numbering, JobOK
  <2>7. Tracked'
    BY <1>1, <1>3, <2>2 DEF Tracked, Done
  <2>8. FirstAttempt'
    BY <2>2 DEF FirstAttempt, Fresh
  <2> QED
    BY <1>2, <1>9, <1>11, <1>13, <2>4, <2>5, <2>6, <2>7, <2>8
<1> QED
  BY <1>7, <1>14, <1>15, <1>16

\* The answer the client waits for is read.
LEMMA AnsweredKeeps ==
    ASSUME Inv, Answered
    PROVE  Inv'
<1>1. /\ waiting # 0 /\ Hear(reply) /\ wire' = wire /\ ownerVars' = ownerVars
      /\ server' = server /\ count' = count
  BY DEF Answered
<1> QED
  BY <1>1, HearKeeps DEF Inv, ClientTypes

\* The client gives up on an answer.
LEMMA NetworkFailsKeeps ==
    ASSUME Inv, NetworkFails
    PROVE  Inv'
<1>1. /\ waiting # 0 /\ Hear("lost") /\ wire' = wire /\ ownerVars' = ownerVars
      /\ server' = server /\ count' = [count EXCEPT !.lost = @ + 1]
  BY DEF NetworkFails
<1>2. /\ count' \in [calls : Nat, tries : Nat, lost : Nat, owners : Nat]
      /\ count'.tries = count.tries
  BY <1>1 DEF Inv, ClientTypes
<1> QED
  BY <1>1, <1>2, HearKeeps

(***************************************************************************)
(* The owner's steps, seen from the client's side                          *)
(***************************************************************************)
\* What every step of the owner and of the server leaves alone.
Unmoved == client' = client /\ queue' = queue /\ waiting' = waiting

\* The parts about the client alone do not notice such a step.
LEMMA ClientRests ==
    ASSUME Inv, Unmoved
    PROVE  ClientOK' /\ QueueOK'
BY DEF Inv, SessionOK, Unmoved, ClientOK, QueueOK, Ambiguous, Done

\* A step that only moves the stream, the server or a request.
LEMMA SessionQuiet ==
    ASSUME Inv, Unmoved, reply' = reply, wire' = wire, owner' = owner, count' = count
    PROVE  ClientTypes' /\ SessionOK'
<1> USE DEF Inv, SessionOK, Unmoved
<1>1. ClientTypes'
  BY DEF ClientTypes
<1>2. ClientOK' /\ QueueOK'
  BY ClientRests
<1>3. Tokens' /\ Numbering' /\ Success' /\ JobOK' /\ Tracked'
  BY DEF Tokens, Numbering, Success, JobOK, Tracked
<1>4. FirstAttempt'
  BY DEF FirstAttempt, Fresh, Untouched
<1> QED
  BY <1>1, <1>2, <1>3, <1>4

Successes == {"result", "committed", "rolled_back"}

\* A command is taken off the wire and answered, and nothing else happens.  A
\* success is the replay of the command the owner completed last.
LEMMA AnswersKeeps ==
    ASSUME Inv, Unmoved, ownerVars' = ownerVars, server' = server, count' = count,
           NEW m \in wire, wire' = wire \ {m},
           NEW code \in Answers, Answer(m.try, code),
           code \in Successes => m.seq + 1 = owner.next
    PROVE  Inv'
<1> USE DEF Inv, SessionOK, Unmoved
<1>1. owner' = owner
  BY DEF ownerVars
<1>2. DatabaseTypes' /\ DatabaseOK'
  BY QuietDatabase, QuietTypes
<1>3. ClientOK' /\ QueueOK'
  BY ClientRests
<1>4. m.try # 0
  BY DEF ClientTypes
<1>5. reply' = IF m.try = waiting THEN code ELSE reply
  BY <1>4 DEF Answer
<1>6. ClientTypes'
  BY <1>1, <1>5 DEF ClientTypes
<1>7. Tokens'
  <2>1. reply' # "none" => /\ waiting # 0 /\ waiting # owner.caller
                           /\ \A n \in wire' : n.try # waiting
    BY <1>4, <1>5 DEF Tokens
  <2> QED
    BY <1>1, <2>1 DEF Tokens
<1>8. Numbering' /\ JobOK' /\ Tracked'
  BY <1>1 DEF Numbering, JobOK, Tracked
<1>9. Success'
  <2>1. CASE m.try = waiting
    <3>1. m.seq = client.seq
      BY <2>1 DEF Tokens
    <3>2. reply' = code
      BY <1>5, <2>1
    <3>3. SuccessOf(client.pending.kind) \in Successes
      BY SuccessIsNoRejection DEF Successes
    <3> QED
      BY <1>1, <3>1, <3>2, <3>3 DEF Success
  <2>2. CASE m.try # waiting
    BY <1>1, <1>5, <2>2 DEF Success
  <2> QED
    BY <2>1, <2>2
<1>10. FirstAttempt'
  <2>1. Fresh' = Fresh /\ Untouched' = Untouched
    BY <1>1 DEF Fresh, Untouched
  <2>2. SUFFICES ASSUME Fresh
                 PROVE  /\ waiting # 0
                        /\ \A n \in wire' : n.seq = client.seq => n.try = waiting /\ Untouched
                        /\ RejectsCommand(reply', client.pending.kind) => Untouched
                        /\ owner.caller = waiting => owner.next = client.seq
    BY <1>1, <2>1 DEF FirstAttempt
  <2>3. /\ waiting # 0
        /\ \A n \in wire : n.seq = client.seq => n.try = waiting /\ Untouched
        /\ RejectsCommand(reply, client.pending.kind) => Untouched
        /\ owner.caller = waiting => owner.next = client.seq
    BY <2>2 DEF FirstAttempt
  <2>4. RejectsCommand(reply', client.pending.kind) => Untouched
    <3>1. CASE m.try = waiting
      BY <2>3, <3>1 DEF Tokens
    <3>2. CASE m.try # waiting
      BY <1>5, <2>3, <3>2
    <3> QED
      BY <3>1, <3>2
  <2> QED
    BY <2>3, <2>4
<1> QED
  BY <1>2, <1>3, <1>6, <1>7, <1>8, <1>9, <1>10

\* A close changes the owner's job and leaves the record as it is.
LEMMA ClosesSession ==
    ASSUME Inv, Unmoved, reply' = reply, count' = count, wire' \subseteq wire,
           owner.phase \in {"active", "committing"},
           owner'.phase = owner.phase, owner'.next = owner.next,
           owner'.last = owner.last, owner'.job = "close",
           owner'.caller \in 0..count.tries,
           \A m \in wire' : m.try # owner'.caller,
           reply # "none" => waiting # owner'.caller,
           Fresh /\ owner'.caller = waiting => owner.next = client.seq
    PROVE  ClientTypes' /\ SessionOK'
<1> USE DEF Inv, SessionOK, Unmoved
<1>1. ClientTypes'
  BY DEF ClientTypes
<1>2. ClientOK' /\ QueueOK'
  BY ClientRests
<1>3. Tokens' /\ Numbering' /\ Success'
  BY DEF Tokens, Numbering, Success
<1>4. JobOK' /\ Tracked'
  BY DEF JobOK, Tracked, Working, CommitPhases
<1>5. FirstAttempt'
  <2>1. Untouched => Untouched'
    BY DEF Untouched
  <2> QED
    BY <2>1 DEF FirstAttempt, Fresh
<1> QED
  BY <1>1, <1>2, <1>3, <1>4, <1>5

\* The answer a job's end gives reaches the client if it waits for it.
LEMMA JobAnswers ==
    ASSUME Inv, Unmoved, wire' = wire, NEW code, Answer(owner.caller, code),
           owner'.caller = 0
    PROVE  /\ reply' = reply \/ (reply' = code /\ owner.caller = waiting /\ waiting # 0)
           /\ \A m \in wire' : m.try # owner'.caller
           /\ reply' # "none" => /\ waiting # 0 /\ waiting # owner'.caller
                                 /\ \A m \in wire' : m.try # waiting
<1> USE DEF Inv, SessionOK, Unmoved
<1>1. \A m \in wire : m.try # 0
  BY DEF ClientTypes
<1>2. reply' = IF owner.caller # 0 /\ owner.caller = waiting THEN code ELSE reply
  BY DEF Answer
<1>3. CASE owner.caller # 0 /\ owner.caller = waiting
  BY <1>1, <1>2, <1>3 DEF Tokens
<1>4. CASE ~(owner.caller # 0 /\ owner.caller = waiting)
  <2>1. reply' = reply
    BY <1>2, <1>4
  <2>2. reply # "none" => /\ waiting # 0
                          /\ \A m \in wire : m.try # waiting
    BY DEF Tokens
  <2> QED
    BY <1>1, <2>1, <2>2
<1> QED
  BY <1>3, <1>4

\* A completed command is one ahead of what the client has heard.
LEMMA CompletesSession ==
    ASSUME Inv, Unmoved, count' = count, wire' = wire,
           owner.job \in Working, NEW phase \in {"active", "committed", "rolled_back"},
           phase = "committed" => KindOf(owner.job) = "commit",
           Completes(KindOf(owner.job), phase)
    PROVE  /\ ClientTypes' /\ SessionOK'
           /\ owner' \in OwnerRecords
           /\ owner'.phase = phase /\ owner'.next = owner.next + 1
           /\ owner'.last = KindOf(owner.job) /\ owner'.job = "none"
           /\ owner'.caller = 0 /\ owner'.code = "none"
<1> USE DEF Inv, SessionOK, Unmoved
<1> DEFINE kind == KindOf(owner.job)
<1>1. owner \in OwnerRecords
  BY DEF DatabaseTypes
<1>2. kind \in CommandKinds /\ kind # "none"
  BY DEF KindOf, Working, CommandKinds, Terminals
<1>3. owner' = [owner EXCEPT !.phase = phase, !.next = @ + 1, !.last = kind,
                             !.job = "none", !.caller = 0, !.code = "none"]
  BY DEF Completes
<1>4. phase \in OwnerPhases
  BY DEF OwnerPhases
<1> HIDE DEF kind
<1>5. /\ owner' \in OwnerRecords
      /\ owner'.phase = phase /\ owner'.next = owner.next + 1
      /\ owner'.last = kind /\ owner'.job = "none"
      /\ owner'.caller = 0 /\ owner'.code = "none"
  <2>1. owner.next + 1 \in Nat
    BY <1>1 DEF OwnerRecords
  <2>2. owner' \in OwnerRecords
    BY <1>1, <1>2, <1>3, <1>4, <2>1 DEF OwnerRecords, Jobs
  <2>3. /\ owner'.phase = phase /\ owner'.next = owner.next + 1
        /\ owner'.last = kind /\ owner'.job = "none"
        /\ owner'.caller = 0 /\ owner'.code = "none"
    BY <1>1, <1>3 DEF OwnerRecords
  <2> QED
    BY <2>2, <2>3
<1>6. /\ owner.next = client.seq /\ client.pending.kind = kind
  BY DEF JobOK, kind
<1>7. Answer(owner.caller, SuccessOf(kind))
  BY DEF Completes, kind
<1>8. /\ reply' = reply \/ (reply' = SuccessOf(kind) /\ owner.caller = waiting /\ waiting # 0)
      /\ \A m \in wire' : m.try # owner'.caller
      /\ reply' # "none" => /\ waiting # 0 /\ waiting # owner'.caller
                            /\ \A m \in wire' : m.try # waiting
  BY <1>5, <1>7, JobAnswers
<1>9. SuccessOf(kind) \in Answers /\ ~RejectsCommand(SuccessOf(kind), kind)
  BY SuccessIsNoRejection DEF Answers
<1>10. ClientTypes'
  BY <1>5, <1>8, <1>9 DEF ClientTypes
<1>11. ClientOK' /\ QueueOK'
  BY ClientRests
<1>12. client.pending # NoPending /\ ~Done(client)
  BY <1>2, <1>6 DEF NoPending, ClientOK
<1>13. Tokens'
  BY <1>8 DEF Tokens
<1>14. Numbering' /\ Success'
  BY <1>5, <1>6, <1>12 DEF Numbering, Success
<1>15. JobOK'
  BY <1>5 DEF JobOK, Working
<1>16. phase \in CommitPhases => kind = "commit"
  BY DEF CommitPhases, kind
<1>17. Tracked'
  BY <1>5, <1>6, <1>12, <1>16 DEF Tracked, Done
<1>18. FirstAttempt'
  <2>1. ~Untouched
    BY DEF Untouched, Working
  <2> QED
    BY <1>5, <1>6, <1>8, <1>9, <2>1 DEF FirstAttempt, Fresh
<1> QED
  BY <1>5, <1>10, <1>11, <1>13, <1>14, <1>15, <1>17, <1>18 DEF kind

\* A job ends without completing its command, or the owner is lost.  What the
\* caller hears is no success, and no rejection while a COMMIT may be about.
LEMMA EndsSession ==
    ASSUME Inv, Unmoved, wire' = wire, count'.tries = count.tries,
           count' \in [calls : Nat, tries : Nat, lost : Nat, owners : Nat],
           NEW code \in (Answers \cup {"none"}) \ Successes,
           Answer(owner.caller, code) \/ reply' = reply,
           NEW phase \in OwnerPhases \ {"committing"},
           owner' = [owner EXCEPT !.phase = phase, !.job = "none", !.caller = 0,
                                  !.code = "none"],
           phase = "committed" <=> owner.phase = "committed",
           phase \in CommitPhases => \/ owner.phase \in CommitPhases
                                     \/ code \in {"outcome_unknown", "none"}
                                        /\ owner.job \in {"commit", "validated"},
           phase \in CommitPhases => code \in {"outcome_unknown", "none"}
    PROVE  /\ ClientTypes' /\ SessionOK'
           /\ owner' \in OwnerRecords
           /\ owner'.phase = phase /\ owner'.next = owner.next
           /\ owner'.last = owner.last /\ owner'.job = "none"
           /\ owner'.caller = 0 /\ owner'.code = "none"
<1> USE DEF Inv, SessionOK, Unmoved
<1>1. owner \in OwnerRecords
  BY DEF DatabaseTypes
<1>2. /\ owner' \in OwnerRecords
      /\ owner'.phase = phase /\ owner'.next = owner.next
      /\ owner'.last = owner.last /\ owner'.job = "none"
      /\ owner'.caller = 0 /\ owner'.code = "none"
  BY <1>1 DEF OwnerRecords, Jobs
<1>3. \A m \in wire : m.try # 0
  BY DEF ClientTypes
<1>4. /\ reply' = reply \/ (reply' = code /\ owner.caller = waiting /\ waiting # 0)
      /\ \A m \in wire' : m.try # owner'.caller
      /\ reply' # "none" => /\ waiting # 0 /\ waiting # owner'.caller
                            /\ \A m \in wire' : m.try # waiting
  <2>1. CASE Answer(owner.caller, code)
    BY <1>2, <2>1, JobAnswers
  <2>2. CASE reply' = reply
    <3>1. reply # "none" => /\ waiting # 0
                            /\ \A m \in wire : m.try # waiting
      BY DEF Tokens
    <3> QED
      BY <1>2, <1>3, <2>2, <3>1
  <2> QED
    BY <2>1, <2>2
<1>5. ClientTypes'
  BY <1>2, <1>4 DEF ClientTypes
<1>6. ClientOK' /\ QueueOK'
  BY ClientRests
<1>7. Tokens'
  BY <1>4 DEF Tokens
<1>8. Numbering'
  BY <1>2 DEF Numbering
<1>9. Success'
  <2>1. SuccessOf(client.pending.kind) # code
    BY SuccessIsNoRejection DEF Successes
  <2> QED
    BY <1>2, <1>4, <2>1 DEF Success
<1>10. JobOK'
  BY <1>2 DEF JobOK, Working
<1>11. Tracked'
  BY <1>2 DEF Tracked
<1>12. FirstAttempt'
  <2>1. Untouched => Untouched'
    BY <1>2 DEF Untouched, CommitPhases
  <2>2. \A kind : RejectsCommand(code, kind) => phase \notin CommitPhases
    BY DEF RejectsCommand
  <2>3. Fresh /\ RejectsCommand(reply', client.pending.kind) => Untouched'
    <3>1. CASE reply' = reply
      BY <2>1, <3>1 DEF FirstAttempt
    <3>2. CASE reply' = code /\ owner.caller = waiting
      BY <1>2, <2>2, <3>2 DEF FirstAttempt, Untouched
    <3> QED
      BY <1>4, <3>1, <3>2
  <2> QED
    BY <1>2, <2>1, <2>3 DEF FirstAttempt, Fresh
<1> QED
  BY <1>2, <1>5, <1>6, <1>7, <1>8, <1>9, <1>10, <1>11, <1>12

\* What the answer of a command that starts nothing says of the owner.
LEMMA ImmediateFacts ==
    ASSUME Inv, NEW m \in wire
    PROVE  /\ ImmediateAnswer(m) \in Answers \cup {"none"}
           /\ ImmediateAnswer(m) = "none" => owner.phase = "active" /\ owner.job = "none"
           /\ ImmediateAnswer(m) \in Successes => m.seq + 1 = owner.next
<1> DEFINE between == {"committing", "commit_unknown"}
<1>1. CASE Replays(m)
  <2>1. ImmediateAnswer(m) = SuccessOf(m.kind)
    BY <1>1 DEF ImmediateAnswer
  <2> QED
    BY <1>1, <2>1, SuccessIsNoRejection DEF Replays, Answers
<1>2. CASE ~Replays(m) /\ owner.phase \in between
  <2>1. ImmediateAnswer(m) = IF owner.job # "none" THEN "internal"
            ELSE IF m.kind = "commit" /\ m.seq = owner.next
            THEN "outcome_unknown" ELSE "unavailable"
    BY <1>2 DEF ImmediateAnswer
  <2> QED
    BY <2>1 DEF Answers, Successes
<1>3. CASE ~Replays(m) /\ owner.phase \notin between /\ owner.job # "none"
  <2>1. ImmediateAnswer(m) = IF owner.caller # 0 THEN "internal" ELSE "unavailable"
    BY <1>3 DEF ImmediateAnswer
  <2> QED
    BY <2>1 DEF Answers, Successes
<1>4. CASE ~Replays(m) /\ owner.phase \notin between /\ owner.job = "none"
  <2>1. ImmediateAnswer(m) = IF owner.phase # "active" THEN "unavailable" ELSE "none"
    BY <1>4 DEF ImmediateAnswer
  <2> QED
    BY <1>4, <2>1 DEF Answers, Successes
<1> QED
  BY <1>1, <1>2, <1>3, <1>4

\* The engine refuses a caller, or the owner answers at once.
LEMMA EngineRefusesKeeps ==
    ASSUME Inv, NEW m \in wire, EngineRefuses(m)
    PROVE  Inv'
<1>1. /\ Unmoved /\ ownerVars' = ownerVars /\ server' = server /\ count' = count
      /\ wire' = wire \ {m} /\ Answer(m.try, "unauthenticated")
  BY DEF EngineRefuses, Unmoved
<1>2. "unauthenticated" \in Answers /\ "unauthenticated" \notin Successes
  BY DEF Answers, Successes
<1> QED
  BY <1>1, <1>2, AnswersKeeps

\* The owner answers a command at once, and nothing else happens.
LEMMA OwnerAnswersKeeps ==
    ASSUME Inv, NEW m \in wire, OwnerAnswers(m)
    PROVE  Inv'
<1>1. /\ Unmoved /\ ownerVars' = ownerVars /\ server' = server /\ count' = count
      /\ wire' = wire \ {m}
  BY DEF OwnerAnswers, Unmoved
<1>2. CASE /\ ImmediateAnswer(m) # "none"
           /\ Answer(m.try, ImmediateAnswer(m))
  <2>1. /\ ImmediateAnswer(m) \in Answers
        /\ ImmediateAnswer(m) \in Successes => m.seq + 1 = owner.next
    BY <1>2, ImmediateFacts
  <2> QED
    BY <1>1, <1>2, <2>1, AnswersKeeps
<1>3. CASE Answer(m.try, "unavailable")
  <2>1. "unavailable" \in Answers /\ "unavailable" \notin Successes
    BY DEF Answers, Successes
  <2> QED
    BY <1>1, <1>3, <2>1, AnswersKeeps
<1> QED
  BY <1>2, <1>3 DEF OwnerAnswers

(***************************************************************************)
(* The owner's steps                                                       *)
(***************************************************************************)
\* A close keeps the record and takes a code the client can be told.
LEMMA CloseFields ==
    ASSUME Inv, NEW code \in CloseCodes
    PROVE  LET o == Close(code) IN
           /\ o \in OwnerRecords /\ o.phase = owner.phase /\ o.next = owner.next
           /\ o.last = owner.last /\ o.job = "close" /\ o.caller = owner.caller
           /\ o.code = code
<1>1. owner \in OwnerRecords
  BY DEF Inv, DatabaseTypes
<1>2. code \in Answers \cup {"none"}
  BY DEF CloseCodes, Answers
<1> QED
  BY <1>1, <1>2 DEF Close, OwnerRecords, Jobs

\* The same for a close that takes a new caller.
LEMMA CloseForFields ==
    ASSUME Inv, NEW code \in CloseCodes, NEW try \in Nat
    PROVE  LET o == [Close(code) EXCEPT !.caller = try] IN
           /\ o \in OwnerRecords /\ o.phase = owner.phase /\ o.next = owner.next
           /\ o.last = owner.last /\ o.job = "close" /\ o.caller = try
           /\ o.code = code
<1>1. LET o == Close(code) IN
           /\ o \in OwnerRecords /\ o.phase = owner.phase /\ o.next = owner.next
           /\ o.last = owner.last /\ o.job = "close" /\ o.code = code
  BY CloseFields
<1> QED
  BY <1>1 DEF OwnerRecords

\* Nothing is committed by an owner that closes before it sent COMMIT.
LEMMA NotCommitted ==
    ASSUME Inv, owner.phase \notin {"committed", "commit_unknown"}, flight.sql # "COMMIT"
    PROVE  server.tx # "committed" /\ (\A r \in late : r.sql # "COMMIT")
BY DEF Inv, DatabaseOK, Recorded

\* A close and the database side: whatever was given up is no COMMIT, and a
\* transaction whose COMMIT was not sent gives nothing up.
LEMMA ClosesDatabase ==
    ASSUME Inv, server' = server, flight' = NoRequest, flight.sql # "COMMIT",
           owner.phase \in {"active", "committing"},
           owner'.phase = owner.phase, owner'.next = owner.next,
           owner'.last = owner.last, owner'.job = "close",
           late' \subseteq late \cup {flight},
           owner.phase = "committing" => late' = late,
           BatonOK'
    PROVE  DatabaseOK'
<1> USE DEF Inv, DatabaseOK
<1>1. server.tx # "committed" /\ (\A r \in late : r.sql # "COMMIT")
  BY NotCommitted
<1>2. FlightOK'
  BY DEF FlightOK, NoRequest
<1>3. Recorded'
  BY <1>1 DEF Recorded
<1>4. RanOK'
  <2>1. CASE owner.phase = "active"
    BY <2>1 DEF RanOK, CommitPhases
  <2>2. CASE owner.phase = "committing"
    <3>1. owner.last # "commit" /\ owner.job # "statement"
      BY <2>2 DEF Recorded, JobOK, SessionOK
    <3>2. Ran' = Ran
      BY <3>1 DEF Ran
    <3> QED
      BY <2>2, <3>2 DEF RanOK, CommitPhases
  <2> QED
    BY <2>1, <2>2
<1> QED
  BY <1>2, <1>3, <1>4

\* A close by the caller of the job it ends.
LEMMA CloseKeeps ==
    ASSUME Inv, Unmoved, reply' = reply, count' = count, wire' = wire, server' = server,
           NEW code \in CloseCodes, owner' = Close(code),
           owner.phase \in {"active", "committing"},
           flight' = NoRequest, flight.sql # "COMMIT", stream' \in Streams,
           late' \subseteq late \cup {flight},
           owner.phase = "committing" => late' = late,
           BatonOK'
    PROVE  Inv'
<1>1. /\ owner' \in OwnerRecords /\ owner'.phase = owner.phase
      /\ owner'.next = owner.next /\ owner'.last = owner.last
      /\ owner'.job = "close" /\ owner'.caller = owner.caller /\ owner'.code = code
  BY CloseFields
<1>2. ClientTypes' /\ SessionOK'
  <2>1. /\ owner'.caller \in 0..count.tries
        /\ \A m \in wire' : m.try # owner'.caller
        /\ reply # "none" => waiting # owner'.caller
        /\ Fresh /\ owner'.caller = waiting => owner.next = client.seq
    BY <1>1 DEF Inv, SessionOK, ClientTypes, Tokens, FirstAttempt
  <2> QED
    BY <1>1, <2>1, ClosesSession
<1>3. DatabaseOK'
  BY <1>1, ClosesDatabase
<1>4. NoRequest \in Requests
  BY DEF NoRequest, Requests
<1>5. DatabaseTypes'
  BY <1>1, <1>4 DEF Inv, DatabaseTypes
<1> QED
  BY <1>2, <1>3, <1>5 DEF Inv

\* An owner without a job has no request in flight.
LEMMA IdleFlight ==
    ASSUME Inv, owner.job = "none"
    PROVE  flight = NoRequest
BY DEF Inv, DatabaseOK, FlightOK

\* No request is none of the requests a property speaks of.
LEMMA NoRequestFields == NoRequest.sql = "none" /\ NoRequest.seq = 0
                         /\ NoRequest.result = "sent" /\ NoRequest \in Requests
BY DEF NoRequest, Requests

\* A close that answers another caller than the one the owner had, if any.
LEMMA CloseForKeeps ==
    ASSUME Inv, Unmoved, reply' = reply, count' = count, server' = server,
           stream' = stream, flight' = flight, late' = late, wire' \subseteq wire,
           owner.phase = "active", owner.job = "none",
           NEW code \in CloseCodes, NEW try \in 0..count.tries,
           owner' = [Close(code) EXCEPT !.caller = try],
           \A m \in wire' : m.try # try,
           reply # "none" => waiting # try,
           Fresh /\ try = waiting => owner.next = client.seq
    PROVE  Inv'
<1>1. try \in Nat
  BY DEF Inv, ClientTypes
<1>2. /\ owner' \in OwnerRecords /\ owner'.phase = owner.phase
      /\ owner'.next = owner.next /\ owner'.last = owner.last
      /\ owner'.job = "close" /\ owner'.caller = try /\ owner'.code = code
  BY <1>1, CloseForFields
<1>3. ClientTypes' /\ SessionOK'
  BY <1>2, ClosesSession
<1>4. flight = NoRequest
  BY IdleFlight
<1>5. BatonOK'
  BY <1>2 DEF Inv, DatabaseOK, BatonOK
<1>6. DatabaseOK'
  BY <1>2, <1>4, <1>5, NoRequestFields, ClosesDatabase
<1>7. DatabaseTypes'
  BY <1>2 DEF Inv, DatabaseTypes
<1> QED
  BY <1>3, <1>6, <1>7 DEF Inv

\* A command starts: a job of its own, or a close because it does not fit.
LEMMA OwnerStartsKeeps ==
    ASSUME Inv, NEW m \in wire, OwnerStarts(m)
    PROVE  Inv'
<1>1. /\ Unmoved /\ reply' = reply /\ count' = count /\ server' = server
      /\ stream' = stream /\ flight' = flight /\ late' = late /\ wire' = wire \ {m}
  BY DEF OwnerStarts, Unmoved
<1>2. ImmediateAnswer(m) = "none"
  BY DEF OwnerStarts
<1>3. owner.phase = "active" /\ owner.job = "none"
  BY <1>2, ImmediateFacts
<1>4. /\ m.try \in 1..count.tries /\ m.try \in 0..count.tries /\ m.try \in Nat
      /\ m.kind \in CommandKinds /\ m.seq \in 1..client.seq
  BY DEF Inv, ClientTypes
<1>5. /\ \A n \in wire' : n.try # m.try
      /\ reply # "none" => waiting # m.try
      /\ Fresh /\ m.try = waiting => Untouched
  BY <1>1 DEF Inv, SessionOK, Tokens, FirstAttempt
<1>6. Fresh /\ m.try = waiting => owner.next = client.seq
  BY <1>5 DEF Untouched
<1>7. ASSUME NEW code \in CloseCodes, owner' = [Close(code) EXCEPT !.caller = m.try]
      PROVE  Inv'
  <2>1. wire' \subseteq wire
    BY <1>1
  <2> QED
    BY <1>1, <1>3, <1>4, <1>5, <1>6, <1>7, <2>1, CloseForKeeps
<1>8. CASE m.seq = owner.next /\ owner' = [owner EXCEPT !.job = m.kind, !.caller = m.try]
  <2>1. owner \in OwnerRecords
    BY DEF Inv, DatabaseTypes
  <2>2. m.kind \in Jobs /\ m.kind \in Working /\ KindOf(m.kind) = m.kind
    BY <1>4 DEF CommandKinds, Terminals, Jobs, Working, KindOf
  <2>3. /\ owner' \in OwnerRecords /\ owner'.phase = owner.phase
        /\ owner'.next = owner.next /\ owner'.last = owner.last
        /\ owner'.job = m.kind /\ owner'.caller = m.try /\ owner'.code = owner.code
    BY <1>4, <1>8, <2>1, <2>2 DEF OwnerRecords
  <2>4. owner.next = client.seq /\ m.seq = client.seq
    <3>1. client.seq \in Nat
      BY DEF Inv, ClientTypes, Clients
    <3> QED
      BY <1>4, <1>8, <3>1 DEF Inv, SessionOK, Numbering
  <2>5. m.kind = client.pending.kind
    BY <2>4 DEF Inv, SessionOK, Tokens
  <2>6. ClientTypes'
    BY <1>1, <1>4, <2>3 DEF Inv, ClientTypes, Unmoved
  <2>7. ClientOK' /\ QueueOK'
    BY <1>1, ClientRests
  <2>8. Tokens' /\ Numbering' /\ Success'
    BY <1>1, <1>5, <2>3 DEF Inv, SessionOK, Tokens, Numbering, Success, Unmoved
  <2>9. JobOK'
    BY <1>1, <1>3, <2>2, <2>3, <2>4, <2>5 DEF JobOK, Unmoved, Working
  <2>10. Tracked'
    BY <1>1, <1>3, <1>4, <2>3, <2>5
    DEF Inv, SessionOK, Tracked, Unmoved, CommandKinds, Terminals, CommitPhases
  <2>11. FirstAttempt'
    <3>1. SUFFICES ASSUME Fresh
                   PROVE  /\ waiting # 0
                          /\ \A n \in wire' : n.seq # client.seq
                          /\ ~RejectsCommand(reply, client.pending.kind)
                          /\ owner.next = client.seq
      BY <1>1, <2>3 DEF FirstAttempt, Fresh, Unmoved
    <3>2. /\ waiting # 0
          /\ \A n \in wire : n.seq = client.seq => n.try = waiting
          /\ m.try = waiting
      BY <2>4, <3>1 DEF Inv, SessionOK, FirstAttempt
    <3>3. \A n \in wire' : n.seq # client.seq
      BY <1>1, <1>5, <3>2
    <3>4. reply = "none"
      BY <1>5, <3>2
    <3> QED
      BY <2>4, <3>2, <3>3, <3>4 DEF RejectsCommand
  <2>12. DatabaseTypes'
    BY <1>1, <2>3 DEF Inv, DatabaseTypes
  <2>13. flight = NoRequest
    BY <1>3, IdleFlight
  <2>14. FlightOK' /\ Recorded' /\ BatonOK'
    BY <1>1, <2>3, <2>13, NoRequestFields DEF Inv, DatabaseOK, FlightOK, Recorded, BatonOK
  <2>15. Ran' = Ran
    BY <1>1, <1>3, <2>3, <2>13, NoRequestFields DEF Ran
  <2>16. RanOK'
    BY <1>1, <1>3, <2>3, <2>15 DEF Inv, DatabaseOK, RanOK
  <2> QED
    BY <2>6, <2>7, <2>8, <2>9, <2>10, <2>11, <2>12, <2>14, <2>16
    DEF Inv, SessionOK, DatabaseOK
<1>9. "unavailable" \in CloseCodes /\ Refusals(m.kind) \subseteq CloseCodes
  BY DEF CloseCodes, Refusals
<1>10. CASE m.seq # owner.next
  BY <1>7, <1>9, <1>10 DEF OwnerStarts
<1>11. CASE m.seq = owner.next
  <2>1. \/ owner' = [owner EXCEPT !.job = m.kind, !.caller = m.try]
        \/ \E code \in Refusals(m.kind) : owner' = [Close(code) EXCEPT !.caller = m.try]
    BY <1>11 DEF OwnerStarts
  <2> QED
    BY <1>7, <1>8, <1>9, <1>11, <2>1
<1> QED
  BY <1>10, <1>11

\* The deadline of an idle transaction.
LEMMA TimerFiresKeeps ==
    ASSUME Inv, TimerFires
    PROVE  Inv'
<1>1. /\ Unmoved /\ reply' = reply /\ count' = count /\ server' = server
      /\ stream' = stream /\ flight' = flight /\ late' = late /\ wire' = wire
      /\ owner.phase = "active" /\ owner.job = "none"
      /\ owner' = [Close("none") EXCEPT !.caller = 0]
  BY DEF TimerFires, Unmoved
<1>2. "none" \in CloseCodes /\ 0 \in 0..count.tries /\ wire' \subseteq wire
  BY <1>1 DEF CloseCodes, Inv, ClientTypes
<1>3. /\ \A m \in wire' : m.try # 0
      /\ reply # "none" => waiting # 0
      /\ ~(Fresh /\ waiting = 0)
  BY <1>1 DEF Inv, ClientTypes, SessionOK, Tokens, FirstAttempt
<1> QED
  BY <1>1, <1>2, <1>3, CloseForKeeps

\* The owner's job sends its request, with the baton the stream holds.
LEMMA SendsKeeps ==
    ASSUME Inv, Unmoved, reply' = reply, count' = count, wire' = wire, server' = server,
           owner' = owner, late' = late, flight = NoRequest,
           stream' \in Streams, stream'.baton = stream.baton,
           stream'.unusable = stream.unusable,
           NEW sql \in {"STATEMENT", "COMMIT", "ROLLBACK"}, NEW seq \in Nat,
           flight' = Request(stream', sql, seq),
           \/ owner.job = "statement" /\ sql = "STATEMENT" /\ seq = owner.next
           \/ owner.job = "commit" /\ sql = "STATEMENT" /\ seq = 0
           \/ /\ owner.job = "validated" /\ owner.phase = "committing"
              /\ sql = "COMMIT" /\ seq = 0
           \/ owner.job \in {"rollback", "close"} /\ sql = "ROLLBACK" /\ seq = 0
    PROVE  Inv'
<1> USE DEF Inv, DatabaseOK
<1>1. ClientTypes' /\ SessionOK'
  BY SessionQuiet
<1>2. flight' \in Requests /\ flight' = [sql |-> sql, seq |-> seq, baton |-> stream'.baton,
                                         result |-> "sent"]
  BY DEF Request, Requests, Streams
<1>3. /\ flight'.sql = sql /\ flight'.seq = seq /\ flight'.baton = stream'.baton
      /\ flight'.result = "sent"
  BY <1>2
<1>4. DatabaseTypes'
  BY <1>2 DEF DatabaseTypes
<1>5. FlightOK'
  BY <1>3 DEF FlightOK
<1>6. Recorded'
  BY <1>3, NoRequestFields DEF Recorded
<1>7. RanOK'
  <2>1. Ran' = Ran
    BY <1>3, NoRequestFields DEF Ran
  <2> QED
    BY <2>1 DEF RanOK
<1>8. BatonOK'
  BY <1>3, NoRequestFields DEF BatonOK
<1> QED
  BY <1>1, <1>4, <1>5, <1>6, <1>7, <1>8

\* An execute returns: the stream has the server's baton or is unusable.
LEMMA ExecuteReturned ==
    ASSUME Inv, flight # NoRequest, flight.sql = "STATEMENT",
           NEW trip \in RoundTrips(flight),
           stream' = ExecuteReturns(stream, server, trip), Lands, server' = server,
           owner'.phase = owner.phase
    PROVE  /\ BatonOK' /\ stream' \in Streams /\ flight' = NoRequest
           /\ late' \subseteq late \cup {flight}
           /\ Succeeds(flight, trip) => late' = late
<1> USE DEF Inv, DatabaseOK
<1>1. stream \in Streams /\ server.baton \in Nat
  BY DEF DatabaseTypes, Servers
<1>2. flight' = NoRequest /\ (late' = late \/ late' = late \cup {flight})
      /\ (flight.result # "sent" => late' = late)
  BY DEF Lands, GiveUp
<1>3. CASE trip = "lost"
  <2>1. stream' = [stream EXCEPT !.unusable = TRUE]
    BY <1>3 DEF ExecuteReturns
  <2>2. stream' \in Streams /\ stream'.unusable
    BY <1>1, <2>1 DEF Streams
  <2>3. BatonOK'
    BY <2>2 DEF BatonOK
  <2> QED
    BY <1>2, <1>3, <2>2, <2>3 DEF Succeeds
<1>4. CASE trip # "lost"
  <2>1. stream' = [stream EXCEPT !.baton = server.baton]
    BY <1>4 DEF ExecuteReturns
  <2>2. stream' \in Streams /\ stream'.unusable = stream.unusable /\ stream'.baton = server.baton
    BY <1>1, <2>1 DEF Streams
  <2>3. flight.result \in {"done", "error"}
    BY <1>4 DEF RoundTrips
  <2>4. late' = late
    BY <1>2, <2>3
  <2>5. BatonOK'
    BY <2>2, <2>4 DEF BatonOK
  <2> QED
    BY <1>2, <2>2, <2>4, <2>5
<1> QED
  BY <1>3, <1>4

\* A statement is sent, or its deadline passed before.
LEMMA StatementSendsKeeps ==
    ASSUME Inv, StatementSends
    PROVE  Inv'
<1>1. /\ Unmoved /\ reply' = reply /\ count' = count /\ wire' = wire /\ server' = server
      /\ late' = late /\ owner.job = "statement" /\ flight = NoRequest
      /\ stream' = stream
  BY DEF StatementSends, Unmoved
<1>2. stream \in Streams /\ owner.next \in Nat
  BY DEF Inv, DatabaseTypes, OwnerRecords
<1>3. CASE owner' = owner /\ Sends("STATEMENT", owner.next)
  BY <1>1, <1>2, <1>3, SendsKeeps DEF Sends
<1>4. CASE owner' = Close("internal") /\ flight' = flight
  <2>1. owner'.phase = owner.phase /\ "internal" \in CloseCodes
    BY <1>4, CloseFields DEF CloseCodes
  <2>2. owner.phase = "active"
    BY <1>1 DEF Inv, SessionOK, JobOK, Working
  <2>3. BatonOK'
    BY <1>1, <1>4, <2>1 DEF Inv, DatabaseOK, BatonOK
  <2>4. late' \subseteq late \cup {flight} /\ flight.sql # "COMMIT"
    BY <1>1, NoRequestFields
  <2>5. owner.phase \in {"active", "committing"} /\ (owner.phase = "committing" => late' = late)
    BY <2>2
  <2> QED
    BY <1>1, <1>2, <1>4, <2>1, <2>3, <2>4, <2>5, CloseKeeps
<1> QED
  BY <1>3, <1>4 DEF StatementSends

\* A statement is recorded only if its reply was read, and then the server has
\* run exactly the recorded ones.
LEMMA StatementReturnsKeeps ==
    ASSUME Inv, StatementReturns
    PROVE  Inv'
<1>1. PICK trip \in RoundTrips(flight) :
          /\ stream' = ExecuteReturns(stream, server, trip)
          /\ StatementOutcome(trip)
  BY DEF StatementReturns
<1>2. /\ Unmoved /\ count' = count /\ wire' = wire /\ server' = server
      /\ owner.job = "statement" /\ flight # NoRequest /\ Lands
  BY DEF StatementReturns, Unmoved
<1>3. /\ owner.phase = "active" /\ owner.job \in Working /\ KindOf(owner.job) = "statement"
      /\ flight.sql = "STATEMENT"
  BY <1>2 DEF Inv, SessionOK, JobOK, DatabaseOK, FlightOK, Working, KindOf
<1>4. owner'.phase = owner.phase =>
      /\ BatonOK' /\ stream' \in Streams /\ flight' = NoRequest
      /\ late' \subseteq late \cup {flight}
      /\ Succeeds(flight, trip) => late' = late
  BY <1>1, <1>2, <1>3, ExecuteReturned
<1>5. CASE Succeeds(flight, trip) /\ Completes("statement", "active")
  <2>1. /\ ClientTypes' /\ SessionOK'
        /\ owner' \in OwnerRecords
        /\ owner'.phase = "active" /\ owner'.next = owner.next + 1
        /\ owner'.last = "statement" /\ owner'.job = "none"
        /\ owner'.caller = 0 /\ owner'.code = "none"
    BY <1>2, <1>3, <1>5, CompletesSession
  <2>2. BatonOK' /\ stream' \in Streams /\ flight' = NoRequest /\ late' = late
    BY <1>3, <1>4, <1>5, <2>1
  <2>3. server.tx # "committed" /\ (\A r \in late : r.sql # "COMMIT")
    BY <1>3, NotCommitted
  <2>4. FlightOK' /\ Recorded'
    BY <1>2, <2>1, <2>2, <2>3, NoRequestFields DEF FlightOK, Recorded
  <2>5. owner.next \in Nat /\ owner.last # "commit"
    BY <1>3 DEF Inv, DatabaseTypes, OwnerRecords, DatabaseOK, Recorded
  <2>6. Ran = owner.next
    BY <1>2, <1>5, <2>5 DEF Ran, Succeeds
  <2>7. Ran' = owner.next
    BY <2>1, <2>5 DEF Ran
  <2>8. RanOK'
    BY <1>2, <1>3, <2>2, <2>6, <2>7 DEF Inv, DatabaseOK, RanOK
  <2>9. DatabaseTypes'
    BY <1>2, <2>1, <2>2, <2>5, NoRequestFields DEF Inv, DatabaseTypes, CloseCodes
  <2> QED
    BY <2>1, <2>2, <2>4, <2>8, <2>9 DEF Inv, DatabaseOK
<1>6. ASSUME NEW code \in Refusals("statement"), owner' = Close(code), reply' = reply
      PROVE  Inv'
  <2>1. code \in CloseCodes
    BY <1>6 DEF Refusals, CloseCodes
  <2>2. owner'.phase = owner.phase
    BY <1>6, <2>1, CloseFields
  <2>3. BatonOK' /\ stream' \in Streams /\ flight' = NoRequest /\ late' \subseteq late \cup {flight}
    BY <1>4, <2>2
  <2>4. /\ owner.phase \in {"active", "committing"} /\ flight.sql # "COMMIT"
        /\ owner.phase = "committing" => late' = late
    BY <1>3
  <2> QED
    BY <1>2, <1>6, <2>1, <2>3, <2>4, CloseKeeps
<1>7. CASE owner' \in {Close(code) : code \in Refusals("statement")} /\ reply' = reply
  BY <1>6, <1>7
<1> QED
  BY <1>1, <1>5, <1>7 DEF StatementOutcome

\* A validator's query is sent.
LEMMA QuerySendsKeeps ==
    ASSUME Inv, QuerySends
    PROVE  Inv'
<1>1. /\ Unmoved /\ reply' = reply /\ count' = count /\ wire' = wire /\ server' = server
      /\ late' = late /\ owner.job = "commit" /\ flight = NoRequest /\ owner' = owner
      /\ stream' = stream /\ flight' = Request(stream', "STATEMENT", 0)
  BY DEF QuerySends, Unmoved, Sends
<1>2. stream \in Streams /\ 0 \in Nat
  BY DEF Inv, DatabaseTypes
<1> QED
  BY <1>1, <1>2, SendsKeeps

\* The commit goes on: the checks passed, and then `committing` is recorded.
LEMMA ValidatesSession ==
    ASSUME Inv, Unmoved, reply' = reply, count' = count, wire' = wire,
           owner.phase = "active", owner.job \in {"commit", "validated"},
           owner'.phase \in {"active", "committing"}, owner'.job = "validated",
           owner'.next = owner.next, owner'.last = owner.last,
           owner'.caller = owner.caller
    PROVE  ClientTypes' /\ SessionOK'
<1> USE DEF Inv, SessionOK, Unmoved
<1>1. ClientTypes'
  BY DEF ClientTypes
<1>2. ClientOK' /\ QueueOK'
  BY ClientRests
<1>3. owner.next = client.seq /\ client.pending.kind = "commit"
  BY DEF JobOK, Working, KindOf
<1>4. Tokens' /\ Numbering' /\ Success'
  BY DEF Tokens, Numbering, Success
<1>5. JobOK'
  BY <1>3 DEF JobOK, Working, KindOf
<1>6. Tracked'
  BY <1>3 DEF Tracked
<1>7. FirstAttempt'
  <2>1. ~Untouched
    BY DEF Untouched
  <2> QED
    BY <2>1 DEF FirstAttempt, Fresh
<1> QED
  BY <1>1, <1>2, <1>4, <1>5, <1>6, <1>7

\* A validator's query returns: the commit goes on or is rejected.
LEMMA QueryReturnsKeeps ==
    ASSUME Inv, QueryReturns
    PROVE  Inv'
<1>1. PICK trip \in RoundTrips(flight) :
          /\ stream' = ExecuteReturns(stream, server, trip)
          /\ owner' \in {[owner EXCEPT !.job = "validated"], Close("check_rejected")}
  BY DEF QueryReturns
<1>2. /\ Unmoved /\ reply' = reply /\ count' = count /\ wire' = wire /\ server' = server
      /\ owner.job = "commit" /\ flight # NoRequest /\ Lands
  BY DEF QueryReturns, Unmoved
<1>3. owner.phase = "active" /\ flight.sql = "STATEMENT" /\ flight.seq = 0
  BY <1>2 DEF Inv, SessionOK, JobOK, DatabaseOK, FlightOK, Working
<1>4. owner'.phase = owner.phase =>
      /\ BatonOK' /\ stream' \in Streams /\ flight' = NoRequest
      /\ late' \subseteq late \cup {flight}
  BY <1>1, <1>2, <1>3, ExecuteReturned
<1>5. CASE owner' = [owner EXCEPT !.job = "validated"]
  <2>1. owner \in OwnerRecords
    BY DEF Inv, DatabaseTypes
  <2>2. /\ owner' \in OwnerRecords /\ owner'.phase = owner.phase
        /\ owner'.next = owner.next /\ owner'.last = owner.last
        /\ owner'.job = "validated" /\ owner'.caller = owner.caller /\ owner'.code = owner.code
    BY <1>5, <2>1 DEF OwnerRecords, Jobs
  <2>3. ClientTypes' /\ SessionOK'
    BY <1>2, <1>3, <2>2, ValidatesSession
  <2>4. BatonOK' /\ stream' \in Streams /\ flight' = NoRequest /\ late' \subseteq late \cup {flight}
    BY <1>4, <2>2
  <2>5. server.tx # "committed" /\ (\A r \in late : r.sql # "COMMIT")
    BY <1>3, NotCommitted
  <2>6. FlightOK' /\ Recorded'
    BY <1>2, <1>3, <2>2, <2>4, <2>5, NoRequestFields
    DEF Inv, DatabaseOK, FlightOK, Recorded
  <2>7. Ran' = Ran
    BY <1>2, <2>2 DEF Ran
  <2>8. RanOK'
    BY <1>2, <1>3, <2>2, <2>4, <2>7 DEF Inv, DatabaseOK, RanOK
  <2>9. DatabaseTypes'
    BY <1>2, <2>2, <2>4, NoRequestFields DEF Inv, DatabaseTypes
  <2> QED
    BY <2>3, <2>4, <2>6, <2>8, <2>9 DEF Inv, DatabaseOK
<1>6. CASE owner' = Close("check_rejected")
  <2>1. "check_rejected" \in CloseCodes
    BY DEF CloseCodes
  <2>2. owner'.phase = owner.phase
    BY <1>6, <2>1, CloseFields
  <2>3. BatonOK' /\ stream' \in Streams /\ flight' = NoRequest /\ late' \subseteq late \cup {flight}
    BY <1>4, <2>2
  <2>4. /\ owner.phase \in {"active", "committing"} /\ flight.sql # "COMMIT"
        /\ owner.phase = "committing" => late' = late
    BY <1>3
  <2> QED
    BY <1>2, <1>6, <2>1, <2>3, <2>4, CloseKeeps
<1> QED
  BY <1>1, <1>5, <1>6

\* The checks are over: the commit is recorded as begun, or refused.
LEMMA ChecksEndKeeps ==
    ASSUME Inv, ChecksEnd
    PROVE  Inv'
<1>1. /\ Unmoved /\ reply' = reply /\ count' = count /\ wire' = wire /\ server' = server
      /\ stream' = stream /\ flight' = flight /\ late' = late
      /\ owner.job \in {"commit", "validated"} /\ owner.phase = "active"
      /\ owner.job = "commit" => flight = NoRequest
  BY DEF ChecksEnd, Unmoved
<1>2. flight = NoRequest
  BY <1>1 DEF Inv, DatabaseOK, FlightOK
<1>3. CASE owner' = [owner EXCEPT !.job = "validated", !.phase = "committing"]
  <2>1. owner \in OwnerRecords
    BY DEF Inv, DatabaseTypes
  <2>2. /\ owner' \in OwnerRecords /\ owner'.phase = "committing"
        /\ owner'.next = owner.next /\ owner'.last = owner.last
        /\ owner'.job = "validated" /\ owner'.caller = owner.caller /\ owner'.code = owner.code
    BY <1>3, <2>1 DEF OwnerRecords, Jobs, OwnerPhases
  <2>3. ClientTypes' /\ SessionOK'
    BY <1>1, <2>2, ValidatesSession
  <2>4. server.tx # "committed" /\ (\A r \in late : r.sql # "COMMIT")
    BY <1>1, <1>2, NoRequestFields, NotCommitted
  <2>5. FlightOK' /\ Recorded'
    BY <1>1, <1>2, <2>2, <2>4, NoRequestFields DEF Inv, DatabaseOK, FlightOK, Recorded
  <2>6. BatonOK'
    BY <1>1, <2>2 DEF Inv, DatabaseOK, BatonOK
  <2>7. Ran' = Ran
    BY <1>1, <2>2 DEF Ran
  <2>8. RanOK'
    BY <1>1, <2>2, <2>7 DEF Inv, DatabaseOK, RanOK
  <2>9. DatabaseTypes'
    BY <1>1, <2>2 DEF Inv, DatabaseTypes
  <2> QED
    BY <2>3, <2>5, <2>6, <2>8, <2>9 DEF Inv, DatabaseOK
<1>4. ASSUME NEW code \in CloseCodes, owner' = Close(code)
      PROVE  Inv'
  <2>1. owner'.phase = owner.phase
    BY <1>4, CloseFields
  <2>2. BatonOK'
    BY <1>1, <2>1 DEF Inv, DatabaseOK, BatonOK
  <2>3. /\ owner.phase \in {"active", "committing"} /\ flight.sql # "COMMIT"
        /\ owner.phase = "committing" => late' = late
        /\ late' \subseteq late \cup {flight} /\ flight' = NoRequest /\ stream' \in Streams
    BY <1>1, <1>2, NoRequestFields DEF Inv, DatabaseTypes
  <2> QED
    BY <1>1, <1>4, <2>2, <2>3, CloseKeeps
<1>5. {"check_rejected", "unavailable", "internal"} \subseteq CloseCodes
  BY DEF CloseCodes
<1>6. \/ owner' = [owner EXCEPT !.job = "validated", !.phase = "committing"]
      \/ \E code \in {"check_rejected", "unavailable", "internal"} : owner' = Close(code)
  BY DEF ChecksEnd
<1> QED
  BY <1>3, <1>4, <1>5, <1>6

\* COMMIT is sent, or provably not sent.
LEMMA CommitSendsKeeps ==
    ASSUME Inv, CommitSends
    PROVE  Inv'
<1>1. PICK expired \in BOOLEAN :
          LET start == CommitStarts(stream, expired)
          IN  /\ stream' = [stream EXCEPT !.attempted = @ \/ ~expired]
              /\ \/ start = "sends" /\ Sends("COMMIT", 0) /\ UNCHANGED <<owner, reply>>
                 \/ /\ start = "not_sent"
                    /\ owner' = Close("unavailable")
                    /\ UNCHANGED <<flight, reply>>
  BY DEF CommitSends
<1>2. /\ Unmoved /\ reply' = reply /\ count' = count /\ wire' = wire /\ server' = server
      /\ owner.job = "validated" /\ owner.phase = "committing" /\ flight = NoRequest
      /\ late' = late
  BY <1>1 DEF CommitSends, Unmoved
<1>3. stream' \in Streams /\ stream'.baton = stream.baton /\ stream'.unusable = stream.unusable
  <2>1. stream \in Streams
    BY DEF Inv, DatabaseTypes
  <2>2. (stream.attempted \/ ~expired) \in BOOLEAN
    OBVIOUS
  <2>3. stream' = [stream EXCEPT !.attempted = stream.attempted \/ ~expired]
    BY <1>1
  <2> QED
    BY <2>1, <2>2, <2>3 DEF Streams
<1>4. CASE flight' = Request(stream', "COMMIT", 0) /\ owner' = owner
  BY <1>2, <1>3, <1>4, SendsKeeps
<1>5. CASE owner' = Close("unavailable") /\ flight' = flight
  <2>1. "unavailable" \in CloseCodes
    BY DEF CloseCodes
  <2>2. owner'.phase = owner.phase
    BY <1>5, <2>1, CloseFields
  <2>3. BatonOK'
    BY <1>2, <1>3, <1>5, <2>2 DEF Inv, DatabaseOK, BatonOK
  <2>4. /\ owner.phase \in {"active", "committing"} /\ flight.sql # "COMMIT"
        /\ late' \subseteq late \cup {flight} /\ flight' = NoRequest
    BY <1>2, <1>5, NoRequestFields
  <2> QED
    BY <1>2, <1>3, <1>5, <2>1, <2>3, <2>4, CloseKeeps
<1> QED
  BY <1>1, <1>4, <1>5 DEF Sends

\* The request the owner gives up may still arrive.
LEMMA LandsFacts ==
    ASSUME Inv, Lands
    PROVE  /\ flight' = NoRequest /\ late' \subseteq late \cup {flight}
           /\ late' \subseteq Requests
           /\ flight.result # "sent" => late' = late
<1>1. late' = late \/ late' = late \cup {flight}
  BY DEF Lands, GiveUp
<1> QED
  BY <1>1 DEF Lands, GiveUp, Inv, DatabaseTypes

\* COMMIT returns: success only after the server committed, and otherwise the
\* record says that nobody knows.
LEMMA CommitReturnsKeeps ==
    ASSUME Inv, CommitReturns
    PROVE  Inv'
<1>1. PICK trip \in RoundTrips(flight) :
          IF Succeeds(flight, trip)
          THEN /\ Completes("commit", "committed")
               /\ stream' = [stream EXCEPT !.open = FALSE]
          ELSE Ends("commit_unknown", "outcome_unknown") /\ UNCHANGED stream
  BY DEF CommitReturns
<1>2. /\ Unmoved /\ count' = count /\ wire' = wire /\ server' = server
      /\ owner.job = "validated" /\ flight # NoRequest /\ Lands
  BY DEF CommitReturns, Unmoved
<1>3. /\ owner.phase = "committing" /\ flight.sql = "COMMIT" /\ flight.seq = 0
      /\ owner.job \in Working /\ KindOf(owner.job) = "commit"
  BY <1>2 DEF Inv, DatabaseOK, FlightOK, Working, KindOf
<1>4. /\ flight' = NoRequest /\ late' \subseteq late \cup {flight}
      /\ late' \subseteq Requests /\ (flight.result # "sent" => late' = late)
  BY <1>2, LandsFacts
<1>5. /\ server.did = [i \in 1..Ran |-> i] /\ (\A r \in late : r.seq = 0)
      /\ owner.last # "commit" /\ owner.next \in Nat \ {0}
      /\ \A r \in late : r.sql # "COMMIT"
  BY <1>3 DEF Inv, DatabaseOK, RanOK, CommitPhases, Recorded, DatabaseTypes, OwnerRecords
<1>6. Ran = owner.next - 1
  BY <1>2, <1>5 DEF Ran
<1>7. CASE Succeeds(flight, trip)
  <2>1. /\ ClientTypes' /\ SessionOK'
        /\ owner' \in OwnerRecords
        /\ owner'.phase = "committed" /\ owner'.next = owner.next + 1
        /\ owner'.last = "commit" /\ owner'.job = "none"
        /\ owner'.caller = 0 /\ owner'.code = "none"
    BY <1>1, <1>2, <1>3, <1>7, CompletesSession
  <2>2. server.tx = "committed" /\ late' = late
    BY <1>3, <1>4, <1>7 DEF Succeeds, Inv, DatabaseOK, FlightOK
  <2>3. stream' \in Streams
    BY <1>1, <1>7 DEF Inv, DatabaseTypes, Streams
  <2>4. FlightOK' /\ Recorded'
    BY <1>2, <1>4, <1>5, <2>1, <2>2, NoRequestFields DEF FlightOK, Recorded
  <2>5. Ran' = owner.next - 1
    BY <1>5, <2>1 DEF Ran
  <2>6. RanOK'
    BY <1>2, <1>5, <1>6, <2>2, <2>5 DEF RanOK
  <2>7. BatonOK'
    BY <2>1 DEF BatonOK
  <2>8. DatabaseTypes'
    BY <1>2, <1>4, <1>5, <2>1, <2>3, NoRequestFields DEF Inv, DatabaseTypes, CloseCodes
  <2> QED
    BY <2>1, <2>4, <2>6, <2>7, <2>8 DEF Inv, DatabaseOK
<1>8. CASE ~Succeeds(flight, trip)
  <2>1. Ends("commit_unknown", "outcome_unknown") /\ stream' = stream
    BY <1>1, <1>8
  <2>2. /\ owner' = [owner EXCEPT !.phase = "commit_unknown", !.job = "none",
                                  !.caller = 0, !.code = "none"]
        /\ Answer(owner.caller, "outcome_unknown")
    BY <2>1 DEF Ends
  <2>3. /\ "outcome_unknown" \in (Answers \cup {"none"}) \ Successes
        /\ "commit_unknown" \in OwnerPhases \ {"committing"}
        /\ owner.phase \in CommitPhases
        /\ count' \in [calls : Nat, tries : Nat, lost : Nat, owners : Nat]
    BY <1>2, <1>3 DEF Answers, Successes, OwnerPhases, CommitPhases, Inv, ClientTypes
  <2>4. /\ ClientTypes' /\ SessionOK'
        /\ owner' \in OwnerRecords
        /\ owner'.phase = "commit_unknown" /\ owner'.next = owner.next
        /\ owner'.last = owner.last /\ owner'.job = "none"
        /\ owner'.caller = 0 /\ owner'.code = "none"
    BY <1>2, <1>3, <2>2, <2>3, EndsSession
  <2>5. FlightOK' /\ Recorded'
    BY <1>2, <1>4, <1>5, <2>4, NoRequestFields DEF FlightOK, Recorded
  <2>6. Ran' = owner.next - 1
    BY <1>5, <2>4 DEF Ran
  <2>7. RanOK'
    BY <1>2, <1>3, <1>4, <1>5, <1>6, <2>6 DEF RanOK
  <2>8. BatonOK'
    BY <2>4 DEF BatonOK
  <2>9. DatabaseTypes'
    BY <1>2, <1>4, <1>5, <2>1, <2>4, NoRequestFields DEF Inv, DatabaseTypes, CloseCodes
  <2> QED
    BY <2>4, <2>5, <2>7, <2>8, <2>9 DEF Inv, DatabaseOK
<1> QED
  BY <1>7, <1>8

\* ROLLBACK is sent, once, with the baton the stream holds.
LEMMA RollbackSendsKeeps ==
    ASSUME Inv, RollbackSends
    PROVE  Inv'
<1>1. /\ Unmoved /\ reply' = reply /\ count' = count /\ wire' = wire /\ server' = server
      /\ late' = late /\ owner.job \in {"rollback", "close"} /\ flight = NoRequest
      /\ owner' = owner /\ flight' = Request(stream', "ROLLBACK", 0)
      /\ stream' = RollbackStarts(stream)
  BY DEF RollbackSends, Unmoved, Sends
<1>2. stream' \in Streams /\ stream'.baton = stream.baton /\ stream'.unusable = stream.unusable
  <2>1. stream \in Streams
    BY DEF Inv, DatabaseTypes
  <2>2. (stream.open /\ ~stream.unusable) \in BOOLEAN
    OBVIOUS
  <2>3. stream' = [stream EXCEPT !.open = stream.open /\ ~stream.unusable]
    BY <1>1 DEF RollbackStarts
  <2> QED
    BY <2>1, <2>2, <2>3 DEF Streams
<1>3. 0 \in Nat
  OBVIOUS
<1> QED
  BY <1>1, <1>2, <1>3, SendsKeeps

\* A transaction that ends without COMMIT: nothing of it can commit any more.
LEMMA EndsWithoutCommit ==
    ASSUME Inv, server' = server, Lands, flight.sql # "COMMIT",
           owner.phase \in {"active", "committing"},
           owner'.phase \in {"rolled_back", "failed"}, owner'.last # "commit",
           owner' \in OwnerRecords, owner'.code = "none", owner'.next # 0,
           stream' \in Streams
    PROVE  DatabaseTypes' /\ DatabaseOK'
<1>1. /\ flight' = NoRequest /\ late' \subseteq late \cup {flight} /\ late' \subseteq Requests
  BY LandsFacts
<1>2. server.tx # "committed" /\ (\A r \in late : r.sql # "COMMIT")
  BY NotCommitted
<1>3. FlightOK' /\ Recorded'
  BY <1>1, <1>2, NoRequestFields DEF FlightOK, Recorded
<1>4. RanOK' /\ BatonOK'
  BY DEF RanOK, BatonOK, CommitPhases
<1>5. DatabaseTypes'
  BY <1>1, NoRequestFields DEF Inv, DatabaseTypes, CloseCodes
<1> QED
  BY <1>3, <1>4, <1>5 DEF DatabaseOK

\* ROLLBACK is over, whatever became of it.
LEMMA RollbackEndsKeeps ==
    ASSUME Inv, RollbackEnds
    PROVE  Inv'
<1>1. PICK trip \in RoundTrips(flight) : stream' = RollbackReturns(stream, flight, trip)
  BY DEF RollbackEnds
<1>2. /\ Unmoved /\ count' = count /\ wire' = wire /\ server' = server
      /\ owner.job \in {"rollback", "close"} /\ flight # NoRequest /\ Lands
      /\ IF owner.job = "rollback" THEN Completes("rollback", "rolled_back")
         ELSE Ends("failed", owner.code)
  BY DEF RollbackEnds, Unmoved
<1>3. /\ owner.phase \in {"active", "committing"} /\ flight.sql = "ROLLBACK"
      /\ owner.job = "rollback" => owner.phase = "active"
  BY <1>2 DEF Inv, SessionOK, JobOK, DatabaseOK, FlightOK, Working
<1>4. stream' \in Streams
  <2>1. stream \in Streams
    BY DEF Inv, DatabaseTypes
  <2>2. (stream.open /\ ~Succeeds(flight, trip)) \in BOOLEAN
    OBVIOUS
  <2>3. stream' = [stream EXCEPT !.open = stream.open /\ ~Succeeds(flight, trip)]
    BY <1>1 DEF RollbackReturns
  <2> HIDE DEF Succeeds
  <2> QED
    BY <2>1, <2>2, <2>3 DEF Streams
<1>5. owner.next \in Nat \ {0} /\ owner.last # "commit" /\ owner.code \in CloseCodes
  BY <1>3 DEF Inv, DatabaseTypes, OwnerRecords, DatabaseOK, Recorded
<1>6. CASE owner.job = "rollback"
  <2>1. owner.job \in Working /\ KindOf(owner.job) = "rollback"
    BY <1>6 DEF Working, KindOf
  <2>2. /\ ClientTypes' /\ SessionOK'
        /\ owner' \in OwnerRecords
        /\ owner'.phase = "rolled_back" /\ owner'.next = owner.next + 1
        /\ owner'.last = "rollback" /\ owner'.code = "none"
    BY <1>2, <1>6, <2>1, CompletesSession
  <2>3. DatabaseTypes' /\ DatabaseOK'
    BY <1>2, <1>3, <1>4, <1>5, <2>2, EndsWithoutCommit
  <2> QED
    BY <2>2, <2>3 DEF Inv
<1>7. CASE owner.job = "close"
  <2>1. /\ owner' = [owner EXCEPT !.phase = "failed", !.job = "none",
                                  !.caller = 0, !.code = "none"]
        /\ Answer(owner.caller, owner.code)
    BY <1>2, <1>7 DEF Ends
  <2>2. /\ owner.code \in (Answers \cup {"none"}) \ Successes
        /\ "failed" \in OwnerPhases \ {"committing"} /\ "failed" \notin CommitPhases
        /\ count' \in [calls : Nat, tries : Nat, lost : Nat, owners : Nat]
    BY <1>2, <1>5 DEF Answers, Successes, CloseCodes, OwnerPhases, CommitPhases, Inv, ClientTypes
  <2>3. /\ ClientTypes' /\ SessionOK'
        /\ owner' \in OwnerRecords
        /\ owner'.phase = "failed" /\ owner'.next = owner.next
        /\ owner'.last = owner.last /\ owner'.code = "none"
    BY <1>2, <1>3, <2>1, <2>2, EndsSession
  <2>4. DatabaseTypes' /\ DatabaseOK'
    BY <1>2, <1>3, <1>4, <1>5, <2>3, EndsWithoutCommit
  <2> QED
    BY <2>3, <2>4 DEF Inv
<1> QED
  BY <1>2, <1>6, <1>7

\* A lost owner: the record alone decides what a successor may say.
LEMMA OwnerLostKeeps ==
    ASSUME Inv, OwnerLost
    PROVE  Inv'
<1> DEFINE phase == PhaseAfterLoss
<1>1. /\ Unmoved /\ reply' = reply /\ wire' = wire /\ server' = server /\ Lands
      /\ owner' = [owner EXCEPT !.phase = phase, !.job = "none",
                                !.caller = 0, !.code = "none"]
      /\ stream' = [stream EXCEPT !.open = FALSE]
      /\ count' = [count EXCEPT !.owners = @ + 1]
  BY DEF OwnerLost, Unmoved
<1>2. owner.phase \in OwnerPhases /\ owner.next # 0
  BY DEF Inv, DatabaseTypes, OwnerRecords
<1>3. /\ owner.phase = "committing" => phase = "commit_unknown"
      /\ owner.phase = "active" => phase = "failed"
      /\ owner.phase \notin {"committing", "active"} => phase = owner.phase
  <2>1. CASE owner.phase = "committing"
    BY <2>1 DEF PhaseAfterLoss
  <2>2. CASE owner.phase = "active"
    BY <2>2 DEF PhaseAfterLoss
  <2>3. CASE owner.phase \notin {"committing", "active"}
    BY <2>3 DEF PhaseAfterLoss
  <2> QED
    BY <2>1, <2>2, <2>3
<1> HIDE DEF phase
<1>4. /\ phase \in OwnerPhases \ {"committing"}
      /\ phase = "committed" <=> owner.phase = "committed"
      /\ phase \in CommitPhases => owner.phase \in CommitPhases
      /\ "none" \in (Answers \cup {"none"}) \ Successes
  BY <1>2, <1>3 DEF OwnerPhases, CommitPhases, Successes
<1>5. /\ count' \in [calls : Nat, tries : Nat, lost : Nat, owners : Nat]
      /\ count'.tries = count.tries
  BY <1>1 DEF Inv, ClientTypes
<1>6. /\ ClientTypes' /\ SessionOK'
      /\ owner' \in OwnerRecords
      /\ owner'.phase = phase /\ owner'.next = owner.next
      /\ owner'.last = owner.last /\ owner'.job = "none"
      /\ owner'.caller = 0 /\ owner'.code = "none"
  BY <1>1, <1>4, <1>5, EndsSession
<1>7. /\ flight' = NoRequest /\ late' \subseteq late \cup {flight} /\ late' \subseteq Requests
      /\ flight.result # "sent" => late' = late
  BY <1>1, LandsFacts
<1>8. stream' \in Streams
  BY <1>1 DEF Inv, DatabaseTypes, Streams
<1>9. DatabaseTypes'
  BY <1>1, <1>2, <1>6, <1>7, <1>8, NoRequestFields DEF Inv, DatabaseTypes, CloseCodes
<1>10. owner.job # "none" => owner.phase \in {"active", "committing"}
  BY DEF Inv, SessionOK, JobOK, DatabaseTypes, OwnerRecords, Jobs, Working
<1>11. flight.sql = "COMMIT" => owner.phase = "committing"
  BY NoRequestFields DEF Inv, DatabaseOK, FlightOK
<1>12. FlightOK'
  BY <1>7, NoRequestFields DEF FlightOK
<1>13. Recorded'
  BY <1>1, <1>3, <1>4, <1>6, <1>7, <1>11, NoRequestFields DEF Inv, DatabaseOK, Recorded
<1>14. RanOK'
  <2>1. SUFFICES ASSUME owner.phase \in CommitPhases
                 PROVE  server.did = [i \in 1..Ran' |-> i] /\ (\A r \in late' : r.seq = 0)
    BY <1>1, <1>3, <1>4, <1>6 DEF RanOK, OwnerPhases
  <2>2. /\ server.did = [i \in 1..Ran |-> i] /\ (\A r \in late : r.seq = 0)
        /\ owner.job # "statement"
    BY <2>1, <1>10 DEF Inv, DatabaseOK, RanOK, SessionOK, JobOK, CommitPhases
  <2>3. Ran' = Ran
    BY <1>6, <2>2 DEF Ran
  <2>4. flight.seq = 0
    BY <2>1, <2>2, NoRequestFields DEF Inv, DatabaseOK, FlightOK
  <2> QED
    BY <1>7, <2>2, <2>3, <2>4
<1>15. BatonOK'
  BY <1>2, <1>3, <1>6 DEF BatonOK, OwnerPhases
<1> QED
  BY <1>6, <1>9, <1>12, <1>13, <1>14, <1>15 DEF Inv, DatabaseOK

(***************************************************************************)
(* The server's steps                                                      *)
(***************************************************************************)
\* One more statement in the order of the sequence numbers.
LEMMA NextStatement ==
    ASSUME NEW n \in Nat
    PROVE  Append([i \in 1..n |-> i], n + 1) = [i \in 1..(n + 1) |-> i]
<1> DEFINE s == [i \in 1..n |-> i]
           t == [i \in 1..(n + 1) |-> i]
<1>1. s \in Seq(Nat) /\ Len(s) = n
  OBVIOUS
<1>2. t \in Seq(Nat) /\ Len(t) = n + 1
  OBVIOUS
<1>3. \A i \in 1..n : s[i] = i
  OBVIOUS
<1>4. \A i \in 1..(n + 1) : t[i] = i
  OBVIOUS
<1> HIDE DEF s, t
<1>5. Append(s, n + 1) \in Seq(Nat) /\ Len(Append(s, n + 1)) = n + 1
  BY <1>1
<1>6. \A i \in 1..(n + 1) : Append(s, n + 1)[i] = t[i]
  BY <1>1, <1>3, <1>4
<1> QED
  BY <1>2, <1>5, <1>6 DEF s, t

\* What running a request does to the server.
LEMMA RunsFields ==
    ASSUME NEW s \in Servers, NEW request \in Requests, NEW ok \in BOOLEAN
    PROVE  LET t == Runs(s, request, ok) IN
           /\ t \in Servers
           /\ request.sql = "STATEMENT" =>
                 /\ t.tx = s.tx /\ t.alive = s.alive
                 /\ t.did = IF ok /\ request.seq # 0 THEN Append(s.did, request.seq) ELSE s.did
           /\ request.sql # "STATEMENT" =>
                 /\ ~t.alive /\ t.did = s.did /\ t.tx \in {"committed", "aborted"}
                 /\ t.tx = "committed" <=> ok /\ request.sql = "COMMIT"
<1>1. CASE request.sql = "STATEMENT"
  <2> DEFINE did == IF ok /\ request.seq # 0 THEN Append(s.did, request.seq) ELSE s.did
  <2>1. Runs(s, request, ok) = [s EXCEPT !.baton = s.baton + 1, !.did = did]
    BY <1>1 DEF Runs
  <2>2. did \in Seq(Nat) /\ s.baton + 1 \in Nat
    BY DEF Servers, Requests
  <2> HIDE DEF did
  <2>3. Runs(s, request, ok) \in Servers
    BY <2>1, <2>2 DEF Servers
  <2>4. /\ Runs(s, request, ok).tx = s.tx /\ Runs(s, request, ok).alive = s.alive
        /\ Runs(s, request, ok).did = did
    BY <2>1 DEF Servers
  <2> QED
    BY <1>1, <2>3, <2>4 DEF did
<1>2. CASE request.sql # "STATEMENT"
  <2> DEFINE tx == IF ok /\ request.sql = "COMMIT" THEN "committed" ELSE "aborted"
  <2>1. Runs(s, request, ok) = [s EXCEPT !.alive = FALSE, !.tx = tx]
    BY <1>2 DEF Runs
  <2>2. tx \in {"committed", "aborted"} /\ (tx = "committed" <=> ok /\ request.sql = "COMMIT")
    OBVIOUS
  <2> HIDE DEF tx
  <2>3. Runs(s, request, ok) \in Servers
    BY <2>1, <2>2 DEF Servers
  <2>4. /\ ~Runs(s, request, ok).alive /\ Runs(s, request, ok).did = s.did
        /\ Runs(s, request, ok).tx = tx
    BY <2>1 DEF Servers
  <2> QED
    BY <1>2, <2>2, <2>3, <2>4
<1> QED
  BY <1>1, <1>2

\* The server takes the request the owner waits for.
LEMMA ServerRunsKeeps ==
    ASSUME Inv, ServerRuns
    PROVE  Inv'
<1> USE DEF Inv, DatabaseOK
<1>1. /\ Unmoved /\ reply' = reply /\ count' = count /\ wire' = wire /\ owner' = owner
      /\ stream' = stream /\ late' = late
      /\ flight.sql # "none" /\ flight.result = "sent"
  BY DEF ServerRuns, Unmoved
<1>2. ClientTypes' /\ SessionOK'
  BY <1>1, SessionQuiet
<1>3. /\ flight \in Requests /\ server \in Servers /\ flight # NoRequest
      /\ server.alive = (server.tx = "open")
  BY <1>1, NoRequestFields DEF DatabaseTypes
<1>4. CASE ~Accepts(server, flight)
  <2>1. flight' = [flight EXCEPT !.result = "refused"] /\ server' = server
    BY <1>4 DEF ServerRuns
  <2>2. /\ flight' \in Requests /\ flight'.sql = flight.sql /\ flight'.seq = flight.seq
        /\ flight'.baton = flight.baton /\ flight'.result = "refused"
    BY <1>3, <2>1 DEF Requests
  <2>3. DatabaseTypes'
    BY <1>1, <2>1, <2>2 DEF DatabaseTypes
  <2>4. FlightOK' /\ Recorded' /\ BatonOK'
    BY <1>1, <1>3, <2>1, <2>2 DEF FlightOK, Recorded, BatonOK
  <2>5. Ran' = Ran
    BY <1>1, <2>2 DEF Ran
  <2>6. RanOK'
    BY <1>1, <2>1, <2>5 DEF RanOK
  <2> QED
    BY <1>2, <2>3, <2>4, <2>6
<1>5. CASE Accepts(server, flight)
  <2>1. PICK ok \in BOOLEAN :
          /\ server' = Runs(server, flight, ok)
          /\ flight' = [flight EXCEPT !.result = IF ok THEN "done" ELSE "error"]
    BY <1>5 DEF ServerRuns
  <2>2. /\ flight' \in Requests /\ flight'.sql = flight.sql /\ flight'.seq = flight.seq
        /\ flight'.baton = flight.baton
        /\ flight'.result = (IF ok THEN "done" ELSE "error")
    BY <1>3, <2>1 DEF Requests
  <2>3. /\ server' \in Servers
        /\ flight.sql = "STATEMENT" =>
              /\ server'.tx = server.tx /\ server'.alive = server.alive
              /\ server'.did = IF ok /\ flight.seq # 0 THEN Append(server.did, flight.seq)
                               ELSE server.did
        /\ flight.sql # "STATEMENT" =>
              /\ ~server'.alive /\ server'.did = server.did
              /\ server'.tx \in {"committed", "aborted"}
              /\ server'.tx = "committed" <=> ok /\ flight.sql = "COMMIT"
    BY <1>3, <2>1, RunsFields
  <2>4. server.alive /\ server.tx = "open"
    BY <1>3, <1>5 DEF Accepts
  <2>5. server'.alive = (server'.tx = "open")
    <3>1. server'.alive \in BOOLEAN
      BY <2>3 DEF Servers
    <3>2. CASE flight.sql = "STATEMENT"
      BY <1>3, <2>3, <3>2
    <3>3. CASE flight.sql # "STATEMENT"
      BY <2>3, <3>1, <3>3
    <3> QED
      BY <3>2, <3>3
  <2>6. DatabaseTypes'
    BY <1>1, <2>2, <2>3, <2>5 DEF DatabaseTypes
  <2>7. FlightOK'
    <3>1. flight.sql = "COMMIT" /\ flight'.result = "done" => server'.tx = "committed"
      BY <2>2, <2>3
    <3> QED
      BY <1>1, <1>3, <2>2, <3>1 DEF FlightOK
  <2>8. Recorded'
    BY <1>1, <2>2, <2>3, <2>4 DEF Recorded
  <2>9. BatonOK'
    BY <1>1, <2>2, <2>4 DEF BatonOK
  <2>10. RanOK'
    <3>1. SUFFICES ASSUME \/ owner.phase \in CommitPhases
                          \/ owner.phase = "active" /\ owner.job # "close"
                   PROVE  server'.did = [i \in 1..Ran' |-> i]
      BY <1>1 DEF RanOK
    <3>2. server.did = [i \in 1..Ran |-> i]
      BY <3>1 DEF RanOK
    <3>3. CASE owner.job = "statement"
      <4>1. flight.sql = "STATEMENT" /\ flight.seq = owner.next
        BY <1>3, <3>3 DEF FlightOK
      <4>2. owner.last # "commit" /\ owner.next \in Nat \ {0}
        BY <3>3 DEF Recorded, SessionOK, JobOK, Working, DatabaseTypes, OwnerRecords
      <4>3. Ran = owner.next - 1
        BY <1>1, <3>3, <4>2 DEF Ran
      <4>4. CASE ok
        <5>1. Ran' = owner.next
          BY <1>1, <2>2, <3>3, <4>2, <4>4 DEF Ran
        <5>2. server'.did = Append(server.did, owner.next)
          BY <2>3, <4>1, <4>2, <4>4
        <5>3. owner.next - 1 \in Nat /\ (owner.next - 1) + 1 = owner.next
          BY <4>2
        <5>4. Append([i \in 1..(owner.next - 1) |-> i], (owner.next - 1) + 1)
              = [i \in 1..((owner.next - 1) + 1) |-> i]
          BY <5>3, NextStatement
        <5> QED
          BY <3>2, <4>3, <5>1, <5>2, <5>3, <5>4
      <4>5. CASE ~ok
        <5>1. Ran' = Ran
          BY <1>1, <2>2, <3>3, <4>2, <4>3, <4>5 DEF Ran
        <5> QED
          BY <2>3, <3>2, <4>1, <4>5, <5>1
      <4> QED
        BY <4>4, <4>5
    <3>4. CASE owner.job # "statement"
      <4>1. flight.seq = 0
        BY <1>3, <3>4 DEF FlightOK
      <4>2. Ran' = Ran
        BY <1>1, <3>4 DEF Ran
      <4> QED
        BY <2>3, <3>2, <4>1, <4>2
    <3> QED
      BY <3>3, <3>4
  <2> QED
    BY <1>2, <2>6, <2>7, <2>8, <2>9, <2>10
<1> QED
  BY <1>4, <1>5

\* A request the owner gave up arrives after all.
LEMMA LateArrivesKeeps ==
    ASSUME Inv, LateArrives
    PROVE  Inv'
<1> USE DEF Inv, DatabaseOK
<1>1. PICK request \in late, ok \in BOOLEAN :
          /\ late' = late \ {request}
          /\ server' = IF Accepts(server, request) THEN Runs(server, request, ok) ELSE server
  BY DEF LateArrives
<1>2. /\ Unmoved /\ reply' = reply /\ count' = count /\ wire' = wire /\ owner' = owner
      /\ stream' = stream /\ flight' = flight
  BY DEF LateArrives, Unmoved
<1>3. ClientTypes' /\ SessionOK'
  BY <1>2, SessionQuiet
<1>4. /\ request \in Requests /\ server \in Servers /\ server.alive = (server.tx = "open")
  BY DEF DatabaseTypes
<1>5. Ran' = Ran
  BY <1>2 DEF Ran
<1>6. CASE ~Accepts(server, request)
  <2>1. server' = server
    BY <1>1, <1>6
  <2>2. DatabaseTypes'
    BY <1>1, <1>2, <2>1 DEF DatabaseTypes
  <2>3. FlightOK' /\ Recorded' /\ RanOK'
    BY <1>1, <1>2, <1>5, <2>1 DEF FlightOK, Recorded, RanOK
  <2>4. BatonOK'
    BY <1>1, <1>2, <2>1 DEF BatonOK
  <2> QED
    BY <1>3, <2>2, <2>3, <2>4
<1>7. CASE Accepts(server, request)
  <2>1. server' = Runs(server, request, ok)
    BY <1>1, <1>7
  <2>2. /\ server' \in Servers
        /\ request.sql = "STATEMENT" =>
              /\ server'.tx = server.tx /\ server'.alive = server.alive
              /\ server'.did = IF ok /\ request.seq # 0 THEN Append(server.did, request.seq)
                               ELSE server.did
        /\ request.sql # "STATEMENT" =>
              /\ ~server'.alive /\ server'.did = server.did
              /\ server'.tx \in {"committed", "aborted"}
              /\ server'.tx = "committed" <=> ok /\ request.sql = "COMMIT"
    BY <1>4, <2>1, RunsFields
  <2>3. server.alive /\ server.tx = "open"
    BY <1>4, <1>7 DEF Accepts
  <2>4. server'.alive = (server'.tx = "open")
    <3>1. server'.alive \in BOOLEAN
      BY <2>2 DEF Servers
    <3>2. CASE request.sql = "STATEMENT"
      BY <1>4, <2>2, <3>2
    <3>3. CASE request.sql # "STATEMENT"
      BY <2>2, <3>1, <3>3
    <3> QED
      BY <3>2, <3>3
  <2>5. DatabaseTypes'
    BY <1>1, <1>2, <2>2, <2>4 DEF DatabaseTypes
  <2>6. FlightOK' /\ Recorded'
    BY <1>1, <1>2, <2>2, <2>3 DEF FlightOK, Recorded
  <2>7. RanOK'
    BY <1>1, <1>2, <1>5, <2>2 DEF RanOK
  <2>8. BatonOK'
    BY <1>1, <1>2, <2>3 DEF BatonOK
  <2> QED
    BY <1>3, <2>5, <2>6, <2>7, <2>8
<1> QED
  BY <1>6, <1>7

\* The server gives the stream up.
LEMMA ServerExpiresKeeps ==
    ASSUME Inv, ServerExpires
    PROVE  Inv'
<1> USE DEF Inv, DatabaseOK
<1>1. /\ Unmoved /\ reply' = reply /\ count' = count /\ wire' = wire /\ owner' = owner
      /\ stream' = stream /\ flight' = flight /\ late' = late /\ server.alive
      /\ server' = Expires(server)
  BY DEF ServerExpires, Unmoved, ownerVars
<1>2. ClientTypes' /\ SessionOK'
  BY <1>1, SessionQuiet
<1>3. server \in Servers /\ server.tx = "open"
  BY <1>1 DEF DatabaseTypes
<1>4. server' = [server EXCEPT !.alive = FALSE, !.tx = "aborted"]
  BY <1>1, <1>3 DEF Expires, Servers
<1>5. /\ server' \in Servers /\ server'.alive = FALSE /\ server'.tx = "aborted"
      /\ server'.did = server.did
  BY <1>3, <1>4 DEF Servers
<1>6. DatabaseTypes'
  BY <1>1, <1>5 DEF DatabaseTypes
<1>7. FlightOK' /\ Recorded' /\ BatonOK'
  BY <1>1, <1>3, <1>5 DEF FlightOK, Recorded, BatonOK
<1>8. Ran' = Ran
  BY <1>1 DEF Ran
<1>9. RanOK'
  BY <1>1, <1>5, <1>8 DEF RanOK
<1> QED
  BY <1>2, <1>6, <1>7, <1>9

(***************************************************************************)
(* The theorems                                                            *)
(***************************************************************************)
\* The session starts after BEGIN with nothing sent and nothing run.
LEMMA InitInv == Init => Inv
<1> SUFFICES ASSUME Init PROVE Inv
  OBVIOUS
<1>1. /\ client = NewClient /\ queue = <<>> /\ waiting = 0 /\ reply = "none"
      /\ wire = {} /\ owner = IdleOwner /\ stream = NewStream /\ flight = NoRequest
      /\ late = {}
      /\ server = [baton |-> 1, tx |-> "open", alive |-> TRUE, did |-> <<>>]
      /\ count = [calls |-> 0, tries |-> 0, lost |-> 0, owners |-> 0]
  BY DEF Init
<1>2. client \in Clients
  BY <1>1 DEF NewClient, NoPending, Clients, CommandKinds, Terminals
<1>3. /\ client.pending = NoPending /\ client.failure = "none" /\ client.state = "active"
      /\ client.seq = 1 /\ ~client.disposed /\ ~client.closed
  BY <1>1 DEF NewClient
<1>4. owner \in OwnerRecords
  BY <1>1 DEF IdleOwner, OwnerRecords, OwnerPhases, Jobs
<1>5. /\ owner.phase = "active" /\ owner.next = 1 /\ owner.last = "none"
      /\ owner.job = "none" /\ owner.caller = 0 /\ owner.code = "none"
  BY <1>1 DEF IdleOwner
<1>6. stream \in Streams /\ stream.baton = 1
  BY <1>1 DEF NewStream, Streams
<1>7. /\ server \in Servers /\ server.tx = "open" /\ server.alive = TRUE
      /\ server.did = <<>> /\ server.baton = 1
  <2>1. <<>> \in Seq(Nat)
    OBVIOUS
  <2> QED
    BY <1>1, <2>1 DEF Servers
<1>8. /\ count \in [calls : Nat, tries : Nat, lost : Nat, owners : Nat] /\ count.tries = 0
  BY <1>1
<1>9. ClientTypes
  BY <1>1, <1>2, <1>5, <1>8 DEF ClientTypes
<1>10. DatabaseTypes
  <2>1. server.alive = (server.tx = "open")
    BY <1>7, Zenon
  <2>2. owner.code \in CloseCodes /\ owner.next # 0
    BY <1>5 DEF CloseCodes
  <2>3. flight \in Requests /\ late \subseteq Requests
    BY <1>1, NoRequestFields
  <2> QED
    BY <1>4, <1>6, <1>7, <2>1, <2>2, <2>3, Zenon DEF DatabaseTypes
<1>11. ClientOK
  BY <1>3 DEF ClientOK, Ambiguous, Done
<1>12. QueueOK
  <2>1. Len(queue) = 0
    BY <1>1
  <2> QED
    BY <1>1, <1>3, <2>1 DEF QueueOK
<1>13. Tokens /\ Numbering /\ Success
  BY <1>1, <1>3, <1>5 DEF Tokens, Numbering, Success
<1>14. JobOK /\ Tracked
  BY <1>3, <1>5 DEF JobOK, Tracked, Working, CommitPhases
<1>15. FirstAttempt
  BY <1>3 DEF FirstAttempt, Fresh
<1>16. FlightOK /\ Recorded /\ BatonOK
  BY <1>1, <1>5, <1>6, <1>7, NoRequestFields DEF FlightOK, Recorded, BatonOK
<1>17. RanOK
  <2>1. Ran = 0
    BY <1>5 DEF Ran
  <2>2. <<>> = [i \in 1..0 |-> i]
    OBVIOUS
  <2> QED
    BY <1>1, <1>7, <2>1, <2>2 DEF RanOK
<1> QED
  BY <1>9, <1>10, <1>11, <1>12, <1>13, <1>14, <1>15, <1>16, <1>17
  DEF Inv, SessionOK, DatabaseOK

\* A step that changes nothing.
LEMMA StutterKeeps ==
    ASSUME Inv, UNCHANGED vars
    PROVE  Inv'
<1>1. /\ Unmoved /\ reply' = reply /\ wire' = wire /\ owner' = owner /\ count' = count
      /\ ownerVars' = ownerVars /\ server' = server
  BY DEF vars, ownerVars, Unmoved
<1> QED
  BY <1>1, SessionQuiet, QuietDatabase, QuietTypes DEF Inv

\* Every step of the session keeps the invariant.
LEMMA NextKeeps == Inv /\ [Next]_vars => Inv'
<1> SUFFICES ASSUME Inv, [Next]_vars PROVE Inv'
  OBVIOUS
<1>1. ASSUME NEW call \in Calls, Call(call) PROVE Inv'
  BY <1>1, CallKeeps
<1>2. ASSUME NEW message \in wire,
             \/ EngineRefuses(message)
             \/ OwnerAnswers(message)
             \/ OwnerStarts(message)
      PROVE  Inv'
  BY <1>2, EngineRefusesKeeps, OwnerAnswersKeeps, OwnerStartsKeeps
<1>3. CASE Turn \/ Answered \/ NetworkFails
  BY <1>3, TurnKeeps, AnsweredKeeps, NetworkFailsKeeps
<1>4. CASE TimerFires \/ StatementSends \/ StatementReturns \/ QuerySends
  BY <1>4, TimerFiresKeeps, StatementSendsKeeps, StatementReturnsKeeps, QuerySendsKeeps
<1>5. CASE QueryReturns \/ ChecksEnd \/ CommitSends \/ CommitReturns
  BY <1>5, QueryReturnsKeeps, ChecksEndKeeps, CommitSendsKeeps, CommitReturnsKeeps
<1>6. CASE RollbackSends \/ RollbackEnds \/ OwnerLost
  BY <1>6, RollbackSendsKeeps, RollbackEndsKeeps, OwnerLostKeeps
<1>7. CASE ServerRuns \/ LateArrives \/ ServerExpires
  BY <1>7, ServerRunsKeeps, LateArrivesKeeps, ServerExpiresKeeps
<1>8. CASE UNCHANGED vars
  BY <1>8, StutterKeeps
<1> QED
  BY <1>1, <1>2, <1>3, <1>4, <1>5, <1>6, <1>7, <1>8 DEF Next

\* The inductive invariant holds in every reachable state of a session, for
\* every number of calls, lost answers and lost owners.
THEOREM SessionInvariant == Spec => []TypeOK /\ []SessionInv
<1>1. Spec => []Inv
  BY InitInv, NextKeeps, PTL DEF Spec
<1>2. Inv => TypeOK /\ SessionInv
  BY InvIs
<1> QED
  BY <1>1, <1>2, PTL

\* Type correctness: no command on the wire is ahead of the client, and the
\* server's stream lives exactly as long as its transaction is open.
THEOREM SessionTypes == Spec => []TypeOK
BY SessionInvariant, PTL

\* The status the application reads is true of the database: `committed` only
\* after the server committed, `rolled_back` and `failed` only if it never
\* does (transaction.js sendPending, protocol.js rejectsCommand).
THEOREM StatusNeverLies == Spec => []StatusIsTrue
<1>1. Inv => StatusIsTrue
  <2> SUFFICES ASSUME Inv PROVE StatusIsTrue
    OBVIOUS
  <2> USE DEF Inv, SessionOK, DatabaseOK
  <2>1. client.state = "committed" => server.tx = "committed"
    BY DEF Tracked, Recorded
  <2>2. client.state \in {"rolled_back", "failed"} => server.tx # "committed"
    <3>1. SUFFICES ASSUME client.state \in {"rolled_back", "failed"}, server.tx = "committed"
                   PROVE  FALSE
      OBVIOUS
    <3>2. client.pending.kind = "none" /\ client.state # "committed"
      BY <3>1 DEF ClientOK, Done, NoPending
    <3>3. owner.phase \in CommitPhases
      BY <3>1, NoRequestFields DEF Recorded, FlightOK, CommitPhases
    <3> QED
      BY <3>2, <3>3 DEF Tracked
  <2> QED
    BY <2>1, <2>2 DEF StatusIsTrue
<1> QED
  BY <1>1, InitInv, NextKeeps, PTL DEF Spec

\* The database commits only for a commit the client sent and still waits for
\* or has confirmed, and exactly the statements the client had confirmed.
THEOREM CommitsConfirmed == Spec => []CommitsWhatWasConfirmed
<1>1. Inv => CommitsWhatWasConfirmed
  <2> SUFFICES ASSUME Inv, server.tx = "committed"
               PROVE  /\ client.state = "committed" \/ client.pending.kind = "commit"
                      /\ server.did = [i \in 1..ConfirmedCount |-> i]
    BY DEF CommitsWhatWasConfirmed
  <2> USE DEF Inv, SessionOK, DatabaseOK
  <2>1. owner.phase \in CommitPhases
    BY NoRequestFields DEF Recorded, FlightOK, CommitPhases
  <2>2. client.state = "committed" \/ client.pending.kind = "commit"
    BY <2>1 DEF Tracked
  <2>3. server.did = [i \in 1..Ran |-> i]
    BY <2>1 DEF RanOK
  <2>4. client.seq \in Nat \ {0} /\ owner.next \in Nat \ {0}
    BY DEF ClientTypes, Clients, DatabaseTypes, OwnerRecords
  <2>5. CASE owner.phase = "committed"
    <3>1. owner.last = "commit" /\ Ran = owner.next - 2
      <4>1. owner.last = "commit" /\ owner.job # "statement"
        BY <2>5 DEF Recorded, JobOK, Working
      <4> QED
        BY <4>1 DEF Ran
    <3>2. CASE client.state = "committed"
      <4>1. owner.next = client.seq /\ ConfirmedCount = client.seq - 2
        BY <3>2 DEF Tracked, ConfirmedCount
      <4> QED
        BY <2>2, <2>3, <3>1, <4>1
    <3>3. CASE client.state # "committed"
      <4>1. owner.next = client.seq + 1 /\ ConfirmedCount = client.seq - 1
        BY <2>5, <3>3 DEF Tracked, ConfirmedCount
      <4>2. Ran = ConfirmedCount
        BY <2>4, <3>1, <4>1
      <4> QED
        BY <2>2, <2>3, <4>2
    <3> QED
      BY <3>2, <3>3
  <2>6. CASE owner.phase # "committed"
    <3>1. owner.last # "commit" /\ client.state # "committed"
      BY <2>6 DEF Recorded, Tracked
    <3>2. owner.next = client.seq
      BY <2>2, <3>1 DEF Numbering
    <3>3. owner.job # "statement"
      BY <2>1, <2>6 DEF JobOK, Working, CommitPhases
    <3>4. Ran = owner.next - 1 /\ ConfirmedCount = client.seq - 1
      BY <3>1, <3>3 DEF Ran, ConfirmedCount
    <3> QED
      BY <2>2, <2>3, <3>2, <3>4
  <2> QED
    BY <2>5, <2>6
<1> QED
  BY <1>1, InitInv, NextKeeps, PTL DEF Spec

\* A usable stream with nothing in flight holds the server's baton, and no
\* abandoned request can overtake the next one (turso-http.ts execute, finish).
THEOREM BatonNeverStale == Spec => []BatonIsCurrent
<1>1. Inv => BatonIsCurrent
  BY NoRequestFields DEF Inv, DatabaseOK, BatonOK, BatonIsCurrent
<1> QED
  BY <1>1, InitInv, NextKeeps, PTL DEF Spec

\* Once the `closed` promise has resolved, no later call, answer or late
\* message changes the status the application read then.
THEOREM ClosedStays == Spec => ClosedIsFinal
<1>1. Inv /\ [Next]_vars => [client.closed => client'.state = client.state]_vars
  <2> SUFFICES ASSUME Inv, Next, client.closed
               PROVE  client'.state = client.state
    OBVIOUS
  <2>1. client \in Clients /\ (Done(client) \/ queue = <<>>)
    BY DEF Inv, ClientTypes, SessionOK, ClientOK, QueueOK
  <2>2. waiting = 0
    BY <2>1 DEF Inv, SessionOK, ClientOK, QueueOK
  <2>3. ASSUME NEW call \in Calls, Call(call) PROVE client'.state = client.state
    BY <2>1, <2>3, AdmittedFields DEF Call
  <2>4. CASE Turn
    <3>1. Head(queue) \in Calls
      BY <2>4 DEF Turn, Inv, ClientTypes
    <3>2. CASE Post(Head(queue))
      <4>1. Issues(client, Head(queue)) => Posted(client, Head(queue)).state = client.state
        BY <2>1, <3>1, PostedFields
      <4> QED
        BY <3>2, <4>1 DEF Post
    <3>3. CASE client' = Unsent(client, Head(queue))
      <4> DEFINE success == /\ Head(queue) \in Terminals
                            /\ client.state = TargetState(Head(queue))
      <4>1. success \in BOOLEAN /\ client' = CallEnds(client, Head(queue), success)
        BY <3>3 DEF Unsent
      <4> HIDE DEF success
      <4> QED
        BY <2>1, <4>1, CallEndsFields
    <3> QED
      BY <2>4, <3>2, <3>3 DEF Turn
  <2>5. ~Answered /\ ~NetworkFails
    BY <2>2 DEF Answered, NetworkFails
  <2>6. ASSUME NEW message \in wire,
               \/ EngineRefuses(message)
               \/ OwnerAnswers(message)
               \/ OwnerStarts(message)
        PROVE  client' = client
    BY <2>6 DEF EngineRefuses, OwnerAnswers, OwnerStarts
  <2>7. CASE TimerFires \/ StatementSends \/ StatementReturns \/ QuerySends \/ QueryReturns
    BY <2>7 DEF TimerFires, StatementSends, StatementReturns, QuerySends, QueryReturns
  <2>8. CASE ChecksEnd \/ CommitSends \/ CommitReturns \/ RollbackSends \/ RollbackEnds
    BY <2>8 DEF ChecksEnd, CommitSends, CommitReturns, RollbackSends, RollbackEnds
  <2>9. CASE OwnerLost \/ ServerRuns \/ LateArrives \/ ServerExpires
    BY <2>9 DEF OwnerLost, ServerRuns, LateArrives, ServerExpires
  <2> QED
    BY <2>3, <2>4, <2>5, <2>6, <2>7, <2>8, <2>9 DEF Next
<1> QED
  BY <1>1, InitInv, NextKeeps, PTL DEF Spec, ClosedIsFinal
===============================================================================
