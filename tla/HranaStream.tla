----------------------------- MODULE HranaStream -----------------------------
(***************************************************************************)
(* The database stream of one transaction: TursoHttpTransaction (deploy/   *)
(* cloudflare/src/turso-http.ts) behind the wrapper of database.ts, and    *)
(* the server it talks to, modelled from how that code uses it.            *)
(*                                                                         *)
(* Every reply names the baton of the next request.  The server refuses    *)
(* any other baton, and runs a request whenever it arrives, also after its *)
(* sender gave up on it.                                                   *)
(***************************************************************************)
EXTENDS Naturals, Sequences

(***************************************************************************)
(* The server                                                              *)
(***************************************************************************)
\* did: the sequence numbers of the statements run in the transaction.
Servers == [baton : Nat, tx : {"open", "committed", "aborted"},
            alive : BOOLEAN, did : Seq(Nat)]

Accepts(server, request) == server.alive /\ request.baton = server.baton

\* What running a request leaves; ok: the server does not report an error.
\* `close` follows COMMIT and ROLLBACK in the same request, whatever they did.
Runs(server, request, ok) ==
    CASE request.sql = "STATEMENT" ->
            [server EXCEPT !.baton = @ + 1,
                           !.did = IF ok /\ request.seq # 0
                                   THEN Append(@, request.seq) ELSE @]
      [] OTHER ->
            [server EXCEPT !.alive = FALSE,
                           !.tx = IF ok /\ request.sql = "COMMIT"
                                  THEN "committed" ELSE "aborted"]

\* An expired stream takes its open transaction with it.
Expires(server) ==
    [server EXCEPT !.alive = FALSE, !.tx = IF @ = "open" THEN "aborted" ELSE @]

(***************************************************************************)
(* The transaction object                                                  *)
(***************************************************************************)
\* unusable: the reply to the last request was not read, so the server's
\* baton is not known; attempted: COMMIT was handed to the pipeline.
Streams == [open : BOOLEAN, unusable : BOOLEAN, attempted : BOOLEAN, baton : Nat]
NewStream == [open |-> TRUE, unusable |-> FALSE, attempted |-> FALSE, baton |-> 1]

\* A request on its way; result: what the server has made of it.
Requests == [sql : {"none", "STATEMENT", "COMMIT", "ROLLBACK"}, seq : Nat,
             baton : Nat, result : {"sent", "done", "error", "refused"}]
NoRequest == [sql |-> "none", seq |-> 0, baton |-> 0, result |-> "sent"]
Request(stream, sql, seq) ==
    [sql |-> sql, seq |-> seq, baton |-> stream.baton, result |-> "sent"]

\* How a round trip ends for the caller: the reply was read, it was refused
\* after its leading bytes named the next baton (too large, malformed,
\* stalled, or past the deadline), or no baton was read.
RoundTrips(request) ==
    {"lost"} \cup (IF request.result \in {"done", "error"}
                   THEN {"read", "prefix"} ELSE {})

Succeeds(request, trip) == request.result = "done" /\ trip = "read"

\* Mutant: only a reply that was read in full moves the baton.
BatonOfFullReplies(stream, server, trip) ==
    IF trip = "read" THEN [stream EXCEPT !.baton = server.baton]
    ELSE stream

\* The next baton comes first, even when the statement was refused; without
\* one the stream cannot be continued.
ExecuteReturns(stream, server, trip) ==
    IF trip = "lost" THEN [stream EXCEPT !.unusable = TRUE]
    ELSE [stream EXCEPT !.baton = server.baton]

\* What commit does with the stream: it returns at once on a closed one, it is
\* provably not sent on an unusable one or past the deadline, a second attempt
\* proves nothing, and otherwise COMMIT is sent.
CommitStarts(stream, expired) ==
    CASE stream.attempted                      -> "unknown"
      [] ~stream.attempted /\ expired          -> "not_sent"
      [] ~stream.attempted /\ ~expired /\ ~stream.open -> "returns"
      [] OTHER -> IF stream.unusable THEN "not_sent" ELSE "sends"

\* A ROLLBACK on an unusable stream is the one best-effort attempt, made with
\* the baton it holds.
RollbackStarts(stream) ==
    [stream EXCEPT !.open = @ /\ ~stream.unusable]

RollbackReturns(stream, request, trip) ==
    [stream EXCEPT !.open = @ /\ ~Succeeds(request, trip)]
=============================================================================
