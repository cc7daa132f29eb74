-------------------------- MODULE TransactionClient --------------------------
(***************************************************************************)
(* The client library's transaction object (packages/client/               *)
(* transaction.js) and the table that decides which error answers prove    *)
(* that a command did not run (protocol.js rejectsCommand).                *)
(*                                                                         *)
(* Calls are queued; one is worked on at a time.  A client record c holds  *)
(* the private fields of the class:                                        *)
(*   pending     the command whose outcome is not known, fixed once sent   *)
(*   failure     "unknown" while pending is ambiguous, "rejected" after a  *)
(*               definite answer                                           *)
(*   state       the public status                                         *)
(*   closing     the terminal call that closed admission                   *)
(*   seq         the next command's sequence number                        *)
(*   disposing, disposed, and closed (the `closed` promise has resolved)   *)
(***************************************************************************)
EXTENDS Naturals

Terminals == {"commit", "rollback"}
Calls == {"execute", "retry", "dispose"} \cup Terminals
CommandKinds == {"statement"} \cup Terminals
NoPending == [kind |-> "none", seq |-> 0]

\* The classes of answers the table tells apart.  "sql_rejected" stands for
\* the compile errors and the statement limit, "internal" for every answer
\* outside the table, "lost" for none at all: a cancelled or failed transport.
Answers == {"result", "committed", "rolled_back", "unavailable",
            "unauthenticated", "sql_rejected", "check_rejected", "internal",
            "outcome_unknown", "lost"}

Clients == [pending : [kind : CommandKinds \cup {"none"}, seq : Nat],
            failure : {"none", "unknown", "rejected"},
            state : {"active", "unknown", "failed", "committed", "rolled_back"},
            closing : Terminals \cup {"none"}, seq : Nat \ {0},
            disposing : BOOLEAN, disposed : BOOLEAN, closed : BOOLEAN]

NewClient == [pending |-> NoPending, failure |-> "none", state |-> "active",
              closing |-> "none", seq |-> 1, disposing |-> FALSE,
              disposed |-> FALSE, closed |-> FALSE]

(***************************************************************************)
(* Admission, when the application makes a call                            *)
(***************************************************************************)
Admits(c, call) ==
    /\ ~c.disposing
    /\ call # "dispose" => ~c.disposed
    /\ call = "execute" => c.closing = "none"
    /\ call \in Terminals => c.closing \in {"none", call}

Admitted(c, call) ==
    CASE call \in Terminals -> [c EXCEPT !.closing = call]
      [] call = "dispose"   -> [c EXCEPT !.disposing = TRUE]
      [] OTHER              -> c

(***************************************************************************)
(* The work of a call, when its turn in the queue comes                    *)
(***************************************************************************)
TargetState(kind) == IF kind = "commit" THEN "committed" ELSE "rolled_back"

CommandOf(call) == CASE call = "execute" -> "statement"
                     [] call = "dispose" -> "rollback"
                     [] OTHER            -> call

\* Mutant: only disposal stops a queued call.
NotDisposed(c) == ~c.disposed

AssertActive(c) == c.failure = "none" /\ ~c.disposed /\ c.state = "active"

\* The call posts a command of its own.
Issues(c, call) ==
    /\ c.pending = NoPending
    /\ CASE call = "execute"     -> AssertActive(c)
         [] call \in Terminals   -> c.state # TargetState(call) /\ AssertActive(c)
         [] call = "dispose"     -> c.state = "active" /\ c.closing = "none"
         [] OTHER                -> FALSE

\* The call sends the pending command once more.
Resends(c, call) ==
    /\ c.pending # NoPending
    /\ CASE call = "retry"     -> ~c.disposed
         [] call \in Terminals -> c.pending.kind = call
         [] OTHER              -> FALSE

\* Mutant: the command takes the number after the next one.
PostedAhead(c, call) ==
    [c EXCEPT !.pending = [kind |-> CommandOf(call), seq |-> c.seq + 1]]

Posted(c, call) ==
    [c EXCEPT !.pending = [kind |-> CommandOf(call), seq |-> c.seq]]

\* A terminal call that ends without success and does not leave its own
\* command pending opens admission again; dispose always disposes.
CallEnds(c, call, success) ==
    CASE call = "dispose" -> [c EXCEPT !.disposed = TRUE, !.closed = TRUE]
      [] call \in Terminals /\ ~success /\ c.pending.kind # call ->
            [c EXCEPT !.closing = "none"]
      [] OTHER -> c

\* A call that sends nothing: refused, cancelled before sending, or already
\* at its target.
Unsent(c, call) ==
    CallEnds(c, call, call \in Terminals /\ c.state = TargetState(call))

(***************************************************************************)
(* The answer to the pending command                                       *)
(***************************************************************************)
SuccessOf(kind) == CASE kind = "statement" -> "result"
                     [] kind = "commit"    -> "committed"
                     [] OTHER              -> "rolled_back"

\* Only a documented code for this kind of command proves a rejection.
RejectsCommand(answer, kind) ==
    \/ answer \in {"unavailable", "unauthenticated"}
    \/ answer = "sql_rejected" /\ kind = "statement"
    \/ answer = "check_rejected" /\ kind = "commit"

Confirmed(c) ==
    [c EXCEPT !.state = IF c.pending.kind = "statement" THEN "active"
                        ELSE TargetState(c.pending.kind),
              !.seq = @ + 1, !.pending = NoPending, !.failure = "none",
              !.closed = @ \/ c.pending.kind # "statement"]

\* Mutant: a later rejection settles an earlier ambiguous attempt.
LaterRejectionSettles(c, answer) ==
    CASE answer = SuccessOf(c.pending.kind) -> Confirmed(c)
      [] RejectsCommand(answer, c.pending.kind) ->
            [c EXCEPT !.pending = NoPending, !.failure = "rejected",
                      !.state = "failed", !.closed = TRUE]
      [] OTHER -> [c EXCEPT !.failure = "unknown", !.state = "unknown"]

\* Once ambiguous, only success settles the pending command.
SendPending(c, answer) ==
    CASE answer = SuccessOf(c.pending.kind) -> Confirmed(c)
      [] answer # SuccessOf(c.pending.kind) /\ c.failure # "none" -> c
      [] /\ c.failure = "none"
         /\ RejectsCommand(answer, c.pending.kind) ->
            [c EXCEPT !.pending = NoPending, !.failure = "rejected",
                      !.state = "failed", !.closed = TRUE]
      [] OTHER -> [c EXCEPT !.failure = "unknown", !.state = "unknown"]
=============================================================================
