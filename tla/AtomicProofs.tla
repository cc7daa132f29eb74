----------------------------- MODULE AtomicProofs -----------------------------
(***************************************************************************)
(* Theorems about one-shot executions, for every set of attempts, callers, *)
(* keys, bodies and deployments, and any number of losses.                 *)
(***************************************************************************)
EXTENDS AtomicExecution, FiniteSetTheorems, TLAPS

(***************************************************************************)
(* The inductive invariant, for one attempt                                *)
(***************************************************************************)
Unopened == {"new", "RequestBinding", "AtomicForward", "AtomicBinding", "AtomicOpen"}
Ending == {"CloseRollback", "AtomicReplay", "Reply"}
PastLookup == {"AtomicExecute", "Validator", "AtomicCommitBinding", "AtomicInsert",
               "AtomicCommit"}
MaySend(a) == tx[a].at = "sent" \/ a \in applied

\* Replies are decided as an execution ends; what a failed last persist answers
\* is never a rejection.
RepliesLast(a) ==
    /\ run[a].at \notin Ending => run[a].reply = None /\ run[a].failure = None
    /\ run[a].failure.code \notin Definite

\* COMMIT is sent only by the work that waits for it.
SentByCommit(a) ==
    /\ run[a].at \in Unopened => tx[a].at = "none"
    /\ MaySend(a) => run[a].at \in {"AtomicCommit", "CloseRollback", "Reply", "done"}

\* A rejection that is decided or told excludes COMMIT, and the execution of a
\* caller that was told is over but for its rollback.
RejectionExcludes(a) ==
    /\ run[a].reply = Given \/ run[a].reply.code \in Definite => ~MaySend(a)
    /\ answer[a].code \in Definite =>
          /\ ~MaySend(a)
          /\ \/ run[a].at = "done"
             \/ run[a].at \in {"CloseRollback", "Reply"} /\ run[a].reply = Given

\* What a committed reply and a conflict rest on.
Carries(a, reply) ==
    reply.code = "committed" =>
        /\ reply.of \in applied
        /\ reply.of = a \/ (Idempotent(a) /\ SameRequest(a, reply.of))
Contends(a, reply) ==
    reply.code = "conflict" =>
        \E b \in applied : /\ run[b].request.who = run[a].request.who
                           /\ run[b].request.key = run[a].request.key
                           /\ Body(b) # Body(a)
RepliesTrue(a) ==
    \A reply \in {run[a].reply, run[a].failure, answer[a]} :
        Carries(a, reply) /\ Contends(a, reply)

\* A keyed write inserts its row before COMMIT, in the same transaction.
RowFirst(a) ==
    /\ run[a].at \in {"AtomicLookup", "AtomicReplay", "AtomicInsert"} => Idempotent(a)
    /\ "row" \in tx[a].did => Idempotent(a)
    /\ /\ tx[a].at = "sent" \/ (tx[a].at = "open" /\ run[a].at = "AtomicCommit")
       /\ Idempotent(a)
       => "row" \in tx[a].did

\* A guarded envelope runs on its owner and commits after its checks.
ChecksFirst(a) ==
    /\ /\ Body(a) \in Guarded
       /\ run[a].at \in Started \cup {"AtomicForward", "AtomicBinding"} \/ tx[a].at # "none"
       => run[a].place = "owner"
    /\ /\ run[a].place = "owner"
       /\ run[a].at \in {"AtomicCommitBinding", "AtomicInsert", "AtomicCommit"}
       => a \in vetted
    /\ MaySend(a) /\ Body(a) \in Guarded => run[a].place = "owner" /\ a \in vetted

\* Past its lookup an execution knows that no earlier attempt's row is left; a
\* statement that committed by itself ends it without a rejection in time.
Spared(a) == a \notin stray /\ before[a] \subseteq deleted
LookedUp(a) ==
    /\ \A b \in before[a] : b \in applied /\ Idempotent(a) /\ SameRequest(a, b)
    /\ run[a].at \in PastLookup => before[a] \subseteq deleted
    /\ a \in stray => run[a].at \in {"CloseRollback", "Reply", "done"}
    /\ ~run[a].late /\ run[a].reply.code \in Definite => Spared(a)
    /\ ~run[a].late /\ answer[a].code \in Definite \ {"stale"} => Spared(a)

\* Only an owner has a deadline, and only its timer answers ahead of the close.
DeadlineIsOwners(a) ==
    /\ run[a].late => /\ run[a].place = "owner"
                      /\ run[a].at \notin {"new", "RequestBinding"}
    /\ run[a].reply = Given => run[a].late

AttemptOK(a) ==
    /\ RepliesLast(a) /\ SentByCommit(a) /\ RejectionExcludes(a) /\ RepliesTrue(a)
    /\ RowFirst(a) /\ ChecksFirst(a) /\ LookedUp(a) /\ DeadlineIsOwners(a)

(***************************************************************************)
(* The inductive invariant, for the database                               *)
(***************************************************************************)
\* A row is of a committed keyed write of its key, and such a write has its row
\* until the cleanup deletes it.
RowsTrue ==
    /\ \A k \in KeyHashes : rows[k] # "none" =>
          /\ rows[k] \in applied
          /\ Idempotent(rows[k])
          /\ KeyHash(run[rows[k]].request) = k
    /\ \A a \in applied \ deleted : Idempotent(a) => rows[KeyHash(run[a].request)] = a
    /\ \A k \in aged : rows[k] # "none"

\* There is one writer, and a row it inserted meets no other.
OneWriter ==
    /\ \A a, b \in Writer : a = b
    /\ \A a \in Attempts :
          tx[a].at # "none" /\ "row" \in tx[a].did => rows[OwnerOf(a)] = "none"

AtomicInv == (\A a \in Attempts : AttemptOK(a)) /\ RowsTrue /\ OneWriter

(***************************************************************************)
(* What a step does to the execution it advances                           *)
(***************************************************************************)
\* Only attempt a's execution changes: what it awaits and its replies.
Moved(a, task, reply, failure) ==
    /\ run' \in [Attempts -> Runs]
    /\ run'[a].at = task /\ run'[a].reply = reply /\ run'[a].failure = failure
    /\ run'[a].request = run[a].request
    /\ run'[a].place = run[a].place /\ run'[a].late = run[a].late
    /\ \A b \in Attempts \ {a} : run'[b] = run[b]

\* An execution in its parts.
LEMMA RunParts ==
    ASSUME TypeOK, NEW a \in Attempts
    PROVE  /\ run \in [Attempts -> Runs] /\ run[a] \in Runs
           /\ run[a].request \in Requests /\ run[a].at \in Tasks
           /\ run[a].place \in {"none", "direct", "owner"}
           /\ run[a].snap \in Versions \cup {"none"} /\ run[a].late \in BOOLEAN
           /\ run[a].reply \in Replies \cup {None, Given}
           /\ run[a].failure \in Replies \cup {None}
BY DEF TypeOK, Runs

\* A request in its parts.
LEMMA RequestParts ==
    ASSUME NEW r \in Requests
    PROVE  /\ r.who \in Callers /\ r.key \in Keys \cup {"none", "malformed"}
           /\ r.body \in Bodies
           /\ r.key \in Keys => KeyHash(r) \in KeyHashes
           /\ \A q \in Requests : r.who = q.who /\ r.key = q.key /\ r.body = q.body => r = q
BY RequestsAssumption DEF KeyHash, KeyHashes

\* Replies are the ones the types list.
LEMMA ReplyTypes ==
    /\ \A a \in Attempts, code \in Codes : /\ Err(a, code) \in Replies
                                           /\ Err(a, code).code = code
                                           /\ Err(a, code).of = a
    /\ None.code \notin Codes /\ Given.code \notin Codes /\ None # Given
    /\ None \notin Replies /\ Given \notin Replies
    /\ \A reply \in Replies : reply.code \in Codes /\ reply.of \in Attempts
BY DEF Err, Replies, None, Given, Codes, Definite

\* The codes a step may answer with.
LEMMA CodeTypes ==
    /\ Definite \subseteq Codes
    /\ {"committed", "internal", "binding_rejected", "database", "timeout"} \subseteq Codes
    /\ "committed" \notin Definite /\ "internal" \notin Definite
    /\ "binding_rejected" \notin Definite /\ "database" \notin Definite
    /\ "timeout" \notin Definite
    /\ \A class \in Classes : ForClass(class) \in Codes
    /\ \A class \in Classes : CommitFailure(class) \in Codes
    /\ \A task, class \in Classes, late \in BOOLEAN : ExecuteFailure(task, class, late) \in Codes
BY DEF Definite, Codes, Classes, ForClass, CommitFailure, ExecuteFailure

\* Waiting for the next effect.
LEMMA AwaitMoves ==
    ASSUME TypeOK, NEW a \in Attempts, NEW task \in Tasks, Await(a, task)
    PROVE  Moved(a, task, run[a].reply, run[a].failure)
<1> DEFINE r == [run[a] EXCEPT !.at = task]
<1>1. r \in Runs /\ r.at = task BY RunParts DEF Runs
<1>2. /\ r.reply = run[a].reply /\ r.failure = run[a].failure
      /\ r.request = run[a].request /\ r.place = run[a].place
      /\ r.late = run[a].late
  BY RunParts DEF Runs
<1>3. run' = [run EXCEPT ![a] = r] BY DEF Await
<1> HIDE DEF r
<1> QED BY <1>1, <1>2, <1>3, RunParts DEF Moved

\* Closing with a reply.
LEMMA CloseMoves ==
    ASSUME TypeOK, NEW a \in Attempts, NEW reply \in Replies, Close(a, reply)
    PROVE  Moved(a, "CloseRollback", reply, Err(a, "internal"))
<1> DEFINE failure == Err(a, "internal")
           r == [run[a] EXCEPT !.at = "CloseRollback", !.reply = reply,
                               !.failure = failure]
<1>1. failure \in Replies BY ReplyTypes, CodeTypes
<1>2. run' = [run EXCEPT ![a] = r] BY DEF Close
<1> HIDE DEF failure
<1>3. r \in Runs /\ r.at = "CloseRollback"
  BY <1>1, RunParts DEF Runs, Tasks
<1>4. /\ r.reply = reply /\ r.failure = failure
      /\ r.request = run[a].request /\ r.place = run[a].place
      /\ r.late = run[a].late
  BY RunParts DEF Runs
<1>5. Moved(a, "CloseRollback", reply, failure)
  <2> HIDE DEF r
  <2> QED BY <1>2, <1>3, <1>4, RunParts DEF Moved
<1> QED BY <1>5 DEF failure

\* Ending.
LEMMA EndMoves ==
    ASSUME TypeOK, NEW a \in Attempts, Ends(a)
    PROVE  Moved(a, "done", None, None)
<1> DEFINE r == Ended(run[a])
<1>1. r \in Runs /\ r.at = "done" /\ r.reply = None /\ r.failure = None
  BY RunParts DEF Runs, Tasks, Ended
<1>2. /\ r.request = run[a].request /\ r.place = run[a].place
      /\ r.late = run[a].late
  BY RunParts DEF Runs, Ended
<1>3. run' = [run EXCEPT ![a] = r] BY DEF Ends
<1> HIDE DEF r
<1> QED BY <1>1, <1>2, <1>3, RunParts DEF Moved

\* Telling a caller: the first answer stands.
LEMMA TellTells ==
    ASSUME TypeOK, NEW a \in Attempts, NEW reply \in Replies \cup {None}, Tell(a, reply)
    PROVE  /\ answer' \in [Attempts -> Replies \cup {None}]
           /\ answer'[a] \in {answer[a], reply}
           /\ \A b \in Attempts \ {a} : answer'[b] = answer[b]
BY DEF Tell, TypeOK

(***************************************************************************)
(* What keeps the invariant of one attempt                                 *)
(***************************************************************************)
\* What no step takes back.
History ==
    /\ \A c \in Attempts : run'[c].request = run[c].request
    /\ applied \subseteq applied' /\ deleted \subseteq deleted' /\ vetted \subseteq vetted'
    /\ applied' \subseteq Attempts

\* The executions a step leaves alone: their deadline may pass, the database
\* may end their transaction, their caller may stop waiting.
Left(a) ==
    /\ run'[a].at = run[a].at /\ run'[a].place = run[a].place
    /\ run'[a].reply = run[a].reply /\ run'[a].failure = run[a].failure
    /\ run[a].late => run'[a].late
    /\ run'[a].late => run[a].late \/ (run[a].place = "owner" /\ run[a].at \in Started)
    /\ tx'[a] \in {tx[a], NoTx}
    /\ a \in applied' => MaySend(a)
    /\ answer'[a] = answer[a] \/ answer'[a].code = "internal"
    /\ before'[a] = before[a]
    /\ a \in stray' => a \in stray

\* What an execution may decide to answer.
Fits(a, reply) ==
    /\ reply = Given => run[a].late
    /\ reply = Given \/ reply.code \in Definite => ~MaySend(a)
    /\ Carries(a, reply) /\ Contends(a, reply)
    /\ reply.code \in Definite /\ ~run[a].late => Spared(a)

\* Requests are what identifies a write, so their hashes, owners and equality
\* are kept with them.
LEMMA RequestsKept ==
    ASSUME TypeOK, History
    PROVE  /\ \A c \in Attempts : /\ Body(c)' = Body(c) /\ (Idempotent(c)' <=> Idempotent(c))
                                  /\ OwnerOf(c)' = OwnerOf(c)
           /\ \A c, d \in Attempts : SameRequest(c, d)' <=> SameRequest(c, d)
BY DEF History, Body, Idempotent, OwnerOf, KeyHash, SameRequest

\* What a reply rests on is kept.
LEMMA ReplyKept ==
    ASSUME TypeOK, History, NEW a \in Attempts, NEW reply
    PROVE  /\ Carries(a, reply) => Carries(a, reply)'
           /\ Contends(a, reply) => Contends(a, reply)'
<1>1. Carries(a, reply) => Carries(a, reply)'
  BY RequestsKept DEF Carries, History, TypeOK
<1>2. Contends(a, reply) => Contends(a, reply)'
  <2> SUFFICES ASSUME Contends(a, reply), reply.code = "conflict"
               PROVE  Contends(a, reply)'
    BY DEF Contends
  <2>1. PICK b \in applied : /\ run[b].request.who = run[a].request.who
                             /\ run[b].request.key = run[a].request.key
                             /\ Body(b) # Body(a)
    BY DEF Contends
  <2>2. /\ b \in applied' /\ run'[b].request = run[b].request
        /\ run'[a].request = run[a].request
    BY DEF History, TypeOK
  <2> QED BY <2>1, <2>2 DEF Contends, Body
<1> QED BY <1>1, <1>2

\* A step keeps the invariant of the executions it leaves alone.
LEMMA LeftOK ==
    ASSUME TypeOK, History, NEW a \in Attempts, AttemptOK(a), Left(a)
    PROVE  AttemptOK(a)'
<1>1. (tx'[a].at = "sent" => tx'[a] = tx[a]) /\ (tx'[a].at # "none" => tx'[a] = tx[a])
  BY DEF Left, NoTx
<1>2. MaySend(a)' => MaySend(a) BY <1>1 DEF Left, MaySend
<1>3. "row" \in tx'[a].did => "row" \in tx[a].did BY DEF Left, NoTx
<1>4. /\ Body(a)' = Body(a) /\ (Idempotent(a)' <=> Idempotent(a))
  BY RequestsKept
<1>5. "internal" \notin Definite BY CodeTypes
<1> USE DEF AttemptOK
<1>6. RepliesLast(a)' BY DEF RepliesLast, Left
<1>7. SentByCommit(a)' BY <1>1, <1>2 DEF SentByCommit, Left
<1>8. RejectionExcludes(a)'
  BY <1>2, <1>5 DEF RejectionExcludes, Left
<1>9. RepliesTrue(a)'
  <2>1. \A reply : reply.code = "internal" => Carries(a, reply) /\ Contends(a, reply)
    BY DEF Carries, Contends
  <2>2. \A reply \in {run'[a].reply, run'[a].failure, answer'[a]} :
           Carries(a, reply) /\ Contends(a, reply)
    BY <2>1 DEF RepliesTrue, Left
  <2> QED BY <2>2, ReplyKept DEF RepliesTrue
<1>10. RowFirst(a)' BY <1>1, <1>3, <1>4 DEF RowFirst, Left
<1>11. ChecksFirst(a)' BY <1>1, <1>2, <1>4 DEF ChecksFirst, Left, History
<1>12. LookedUp(a)'
  <2>1. \A b \in before'[a] : (b \in applied /\ Idempotent(a) /\ SameRequest(a, b))'
    BY <1>4, RequestsKept DEF LookedUp, Left, History, TypeOK
  <2>2. Spared(a) => Spared(a)' BY DEF Spared, Left, History
  <2> QED BY <2>1, <2>2, <1>5 DEF LookedUp, Left, History
<1>13. DeadlineIsOwners(a)' BY DEF DeadlineIsOwners, Left, Started
<1> QED BY <1>6, <1>7, <1>8, <1>9, <1>10, <1>11, <1>12, <1>13

\* A step that ends an execution and may answer its caller keeps its invariant.
LEMMA EndedOK ==
    ASSUME TypeOK, History, NEW a \in Attempts, AttemptOK(a),
           NEW reply, Fits(a, reply), answer'[a] \in {answer[a], reply},
           run'[a].at = "done", run'[a].reply = None, run'[a].failure = None,
           run'[a].late = run[a].late, run'[a].place = run[a].place,
           before'[a] = before[a], stray' = stray, applied' = applied,
           tx'[a] \in {tx[a], NoTx, [at |-> "open", did |-> {}]},
           Body(a) \in Guarded /\ tx'[a] # tx[a] => run[a].place = "owner"
    PROVE  AttemptOK(a)'
<1>1. tx'[a].at = "sent" => tx'[a] = tx[a] BY DEF NoTx
<1>2. MaySend(a)' => MaySend(a) BY <1>1 DEF MaySend
<1>3. "row" \in tx'[a].did => "row" \in tx[a].did BY DEF NoTx
<1>4. /\ Body(a)' = Body(a) /\ (Idempotent(a)' <=> Idempotent(a))
  BY RequestsKept
<1>5. None.code \notin Definite /\ None # Given /\ None.code \notin {"committed", "conflict"}
  BY DEF None, Given, Definite
<1> USE DEF AttemptOK
<1>6. RepliesLast(a)' BY <1>5 DEF RepliesLast
<1>7. SentByCommit(a)' BY DEF SentByCommit, Unopened
<1>8. RejectionExcludes(a)' BY <1>2, <1>5 DEF RejectionExcludes, Fits
<1>9. RepliesTrue(a)'
  <2>1. \A r \in {run'[a].reply, run'[a].failure, answer'[a]} :
           Carries(a, r) /\ Contends(a, r)
    BY <1>5 DEF RepliesTrue, Fits, Carries, Contends
  <2> QED BY <2>1, ReplyKept DEF RepliesTrue
<1>10. RowFirst(a)' BY <1>1, <1>3, <1>4 DEF RowFirst
<1>11. ChecksFirst(a)' BY <1>1, <1>2, <1>4 DEF ChecksFirst, History, Started
<1>12. LookedUp(a)'
  <2>1. \A b \in before'[a] : (b \in applied /\ Idempotent(a) /\ SameRequest(a, b))'
    BY <1>4, RequestsKept DEF LookedUp, History, TypeOK
  <2>2. Spared(a) => Spared(a)' BY DEF Spared, History
  <2> QED BY <2>1, <2>2, <1>5 DEF LookedUp, History, Fits, PastLookup
<1>13. DeadlineIsOwners(a)' BY <1>5 DEF DeadlineIsOwners
<1> QED BY <1>6, <1>7, <1>8, <1>9, <1>10, <1>11, <1>12, <1>13

\* A step that decides what an execution answers, and has it roll back or
\* record that first, keeps its invariant.
LEMMA EndingOK ==
    ASSUME TypeOK, History, NEW a \in Attempts, AttemptOK(a),
           NEW task \in Ending, NEW reply, NEW failure, NEW told,
           run[a].at \in Started,
           run'[a].at = task, run'[a].reply = reply, run'[a].failure = failure,
           run'[a].late = run[a].late, run'[a].place = run[a].place,
           before'[a] = before[a], applied' = applied,
           Fits(a, reply), Fits(a, failure), Fits(a, told), failure.code \notin Definite,
           answer'[a] \in {answer[a], told},
           answer'[a].code \in Definite => reply = Given /\ task # "AtomicReplay",
           tx'[a].at \in {tx[a].at, "none"},
           tx'[a].at = "sent" => tx'[a] = tx[a],
           "row" \in tx'[a].did => Idempotent(a),
           task = "AtomicReplay" => Idempotent(a) /\ ~MaySend(a) /\ a \notin stray',
           a \in stray' => \/ a \in stray
                           \/ /\ answer'[a] = answer[a] /\ run[a].at = "AtomicExecute"
                              /\ run[a].late \/ reply.code \notin Definite
    PROVE  AttemptOK(a)'
<1>2. MaySend(a)' => MaySend(a) BY DEF MaySend
<1>4. /\ Body(a)' = Body(a) /\ (Idempotent(a)' <=> Idempotent(a))
  BY RequestsKept
<1> USE DEF AttemptOK
<1>6. RepliesLast(a)' BY DEF RepliesLast
<1>7. SentByCommit(a)' BY <1>2 DEF SentByCommit, Unopened, Ending
<1>8. RejectionExcludes(a)'
  BY <1>2 DEF RejectionExcludes, Fits, Ending
<1>9. RepliesTrue(a)'
  <2>1. \A r \in {run'[a].reply, run'[a].failure, answer'[a]} :
           Carries(a, r) /\ Contends(a, r)
    BY DEF RepliesTrue, Fits
  <2> QED BY <2>1, ReplyKept DEF RepliesTrue
<1>10. RowFirst(a)' BY <1>4 DEF RowFirst, Ending
<1>11. ChecksFirst(a)' BY <1>2, <1>4 DEF ChecksFirst, History, Ending
<1>12. LookedUp(a)'
  <2>1. \A b \in before'[a] : (b \in applied /\ Idempotent(a) /\ SameRequest(a, b))'
    BY <1>4, RequestsKept DEF LookedUp, History, TypeOK
  <2>2. Spared(a) /\ (a \in stray' => a \in stray) => Spared(a)' BY DEF Spared, History
  <2>3. run[a].at = "AtomicExecute" => answer[a].code \notin Definite
    BY DEF RejectionExcludes
  <2>4. a \in stray' => run'[a].at \in {"CloseRollback", "Reply", "done"}
    BY DEF Ending
  <2>5. run'[a].at \notin PastLookup BY DEF Ending, PastLookup
  <2>6. ~run[a].late /\ reply.code \in Definite => Spared(a)'
    BY <2>2 DEF Fits
  <2>7. ~run[a].late /\ answer'[a].code \in Definite \ {"stale"} => Spared(a)'
    BY <2>2, <2>3 DEF Fits, LookedUp
  <2> QED BY <2>1, <2>4, <2>5, <2>6, <2>7 DEF LookedUp
<1>13. DeadlineIsOwners(a)' BY DEF DeadlineIsOwners, Fits, Ending
<1> QED BY <1>6, <1>7, <1>8, <1>9, <1>10, <1>11, <1>12, <1>13

\* A step that has an execution wait for its next effect keeps its invariant.
LEMMA WaitingOK ==
    ASSUME TypeOK, History, NEW a \in Attempts, AttemptOK(a),
           NEW task \in Tasks \ (Ending \cup {"done"}),
           run[a].at \notin Ending \cup {"done", "AtomicCommit"},
           run'[a].at = task, run'[a].reply = run[a].reply, run'[a].failure = run[a].failure,
           run'[a].late => run'[a].place = "owner" /\ task \notin {"new", "RequestBinding"},
           before'[a] = before[a], applied' = applied, stray' = stray, answer'[a] = answer[a],
           tx'[a].at # "sent", task \in Unopened => tx'[a].at = "none",
           "row" \in tx'[a].did => Idempotent(a),
           task \in {"AtomicLookup", "AtomicInsert"} => Idempotent(a),
           task = "AtomicCommit" /\ tx'[a].at = "open" /\ Idempotent(a) => "row" \in tx'[a].did,
           Body(a) \in Guarded /\ task \notin {"new", "RequestBinding"} => run'[a].place = "owner",
           /\ run'[a].place = "owner"
           /\ task \in {"AtomicCommitBinding", "AtomicInsert", "AtomicCommit"}
           => a \in vetted',
           task \in PastLookup => before[a] \subseteq deleted
    PROVE  AttemptOK(a)'
<1> USE DEF AttemptOK
<1>1. ~MaySend(a) BY DEF SentByCommit, Ending
<1>2. ~MaySend(a)' BY <1>1 DEF MaySend
<1>3. answer[a].code \notin Definite BY DEF RejectionExcludes, Ending
<1>4. /\ Body(a)' = Body(a) /\ (Idempotent(a)' <=> Idempotent(a))
  BY RequestsKept
<1>5. run[a].reply = None /\ run[a].failure = None BY DEF RepliesLast
<1>6. RepliesLast(a)' BY <1>5 DEF RepliesLast
<1>7. SentByCommit(a)' BY <1>2 DEF SentByCommit
<1>8. RejectionExcludes(a)' BY <1>2, <1>3 DEF RejectionExcludes
<1>9. RepliesTrue(a)' BY ReplyKept DEF RepliesTrue
<1>10. RowFirst(a)' BY <1>4 DEF RowFirst, Ending
<1>11. ChecksFirst(a)'
  BY <1>2, <1>4 DEF ChecksFirst, Started, Unopened
<1>12. LookedUp(a)'
  <2>1. \A b \in before'[a] : (b \in applied /\ Idempotent(a) /\ SameRequest(a, b))'
    BY <1>4, RequestsKept DEF LookedUp, History, TypeOK
  <2>2. a \notin stray' BY DEF LookedUp, Ending
  <2>3. None.code \notin Definite BY DEF None, Definite
  <2> QED BY <2>1, <2>2, <2>3, <1>3, <1>5 DEF LookedUp, History
<1>13. DeadlineIsOwners(a)' BY <1>5 DEF DeadlineIsOwners, None, Given
<1> QED BY <1>6, <1>7, <1>8, <1>9, <1>10, <1>11, <1>12, <1>13

(***************************************************************************)
(* Steps of one execution                                                  *)
(***************************************************************************)
\* What a step of attempt a's execution leaves alone.
Alone(a) ==
    /\ run' \in [Attempts -> Runs] /\ answer' \in [Attempts -> Replies \cup {None}]
    /\ tx' \in [Attempts -> Transactions]
    /\ stray' \subseteq Attempts /\ vetted' \subseteq Attempts /\ vetted \subseteq vetted'
    /\ run'[a].request = run[a].request
    /\ \A b \in Attempts \ {a} : /\ run'[b] = run[b] /\ answer'[b] = answer[b]
                                 /\ tx'[b] = tx[b] /\ (b \in stray' => b \in stray)
                                 /\ before'[b] = before[b]
    /\ before' \in [Attempts -> SUBSET Attempts]
    /\ UNCHANGED <<rows, applied, worker, host, aged, sweep, deploys, deleted>>
    /\ losses' \in 0..MaxLosses

\* The rows and the writers after a step that takes no lock and inserts no row.
LEMMA DatabaseKept ==
    ASSUME TypeOK, History, RowsTrue, OneWriter, UNCHANGED <<rows, applied, aged, deleted>>,
           \A c \in Attempts : tx'[c].at # "none" =>
               tx[c].at # "none" /\ ("row" \in tx'[c].did => "row" \in tx[c].did)
    PROVE  RowsTrue' /\ OneWriter'
<1>1. RowsTrue'
  <2>1. \A k \in KeyHashes : rows[k] # "none" => rows[k] \in Attempts BY DEF TypeOK
  <2>2. \A c \in Attempts : KeyHash(run'[c].request) = KeyHash(run[c].request)
    BY DEF History
  <2> QED BY <2>1, <2>2, RequestsKept DEF RowsTrue, TypeOK
<1>2. Writer' \subseteq Writer BY RequestsKept DEF Writer
<1> QED BY <1>1, <1>2, RequestsKept DEF OneWriter

\* A step of one execution keeps the invariant if it keeps its attempt's, takes
\* no lock and inserts no row.
LEMMA AloneOK ==
    ASSUME TypeOK, AtomicInv, NEW a \in Attempts, Alone(a)
    PROVE  /\ TypeOK' /\ History
           /\ AttemptOK(a)' /\ RowsTrue' /\ OneWriter' => AtomicInv'
           /\ (tx'[a].at # "none" =>
                  tx[a].at # "none" /\ ("row" \in tx'[a].did => "row" \in tx[a].did))
              => RowsTrue' /\ OneWriter'
<1>1. TypeOK' BY DEF TypeOK, Alone
<1>2. History BY DEF History, Alone, TypeOK
<1>3. ASSUME NEW b \in Attempts \ {a} PROVE AttemptOK(b)'
  <2>1. Left(b) BY <1>3 DEF Left, Alone, MaySend
  <2> QED BY <1>2, <2>1, LeftOK DEF AtomicInv
<1>4. (tx'[a].at # "none" =>
          tx[a].at # "none" /\ ("row" \in tx'[a].did => "row" \in tx[a].did))
      => RowsTrue' /\ OneWriter'
  BY <1>2, DatabaseKept DEF AtomicInv, Alone
<1> QED BY <1>1, <1>2, <1>3, <1>4 DEF AtomicInv

\* Answers that claim nothing.
LEMMA NoClaim ==
    ASSUME NEW a \in Attempts, NEW code \in Codes \ (Definite \cup {"committed"})
    PROVE  Fits(a, Err(a, code)) /\ Fits(a, None)
<1>1. Err(a, code) # Given /\ Err(a, code).code = code BY ReplyTypes
<1>2. None # Given /\ None.code \notin Definite \cup {"committed"}
  BY DEF None, Given, Definite
<1>3. "conflict" \in Definite BY DEF Definite
<1> QED BY <1>1, <1>2, <1>3 DEF Fits, Carries, Contends

\* Rejections: no COMMIT, and no trace of the request or a deadline that passed.
LEMMA Rejection ==
    ASSUME NEW a \in Attempts, NEW code \in Definite \ {"conflict"},
           ~MaySend(a), run[a].late \/ Spared(a)
    PROVE  Fits(a, Err(a, code))
BY DEF Fits, Err, Given, Definite, Carries, Contends

\* What an execution has decided.
LEMMA Decided ==
    ASSUME TypeOK, NEW a \in Attempts, AttemptOK(a)
    PROVE  Fits(a, run[a].reply) /\ Fits(a, run[a].failure)
<1>1. Fits(a, run[a].reply)
  BY DEF AttemptOK, Fits, RejectionExcludes, RepliesTrue, LookedUp, DeadlineIsOwners
<1>2. Fits(a, run[a].failure)
  <2>1. run[a].failure.code \notin Definite BY DEF AttemptOK, RepliesLast
  <2>2. run[a].failure # Given BY RunParts, ReplyTypes
  <2> QED BY <2>1, <2>2 DEF AttemptOK, Fits, RepliesTrue
<1> QED BY <1>1, <1>2

\* An execution that has not sent COMMIT has not committed, and its caller was
\* not told of a rejection.
LEMMA Unsent ==
    ASSUME NEW a \in Attempts, AttemptOK(a),
           run[a].at \notin Ending \cup {"done", "AtomicCommit"}
    PROVE  /\ ~MaySend(a) /\ tx[a].at # "sent" /\ a \notin applied /\ a \notin stray
           /\ answer[a].code \notin Definite
           /\ run[a].reply = None /\ run[a].failure = None
BY DEF AttemptOK, SentByCommit, MaySend, Ending, LookedUp, RejectionExcludes, RepliesLast

\* A transaction in its parts, and the ways a step changes one.
LEMMA TxParts ==
    ASSUME TypeOK, NEW a \in Attempts
    PROVE  /\ tx[a] \in Transactions /\ tx[a].at \in {"none", "open", "sent"}
           /\ tx[a].did \subseteq {"envelope", "row"}
           /\ NoTx \in Transactions /\ NoTx.at = "none" /\ NoTx.did = {}
           /\ \A t \in Transactions :
                 /\ [tx EXCEPT ![a] = t] \in [Attempts -> Transactions]
                 /\ [tx EXCEPT ![a] = t][a] = t
                 /\ \A b \in Attempts \ {a} : [tx EXCEPT ![a] = t][b] = tx[b]
BY DEF TypeOK, Transactions, NoTx

\* What may happen to the transaction of an execution that is closed: it ends,
\* stays, or did more before it was found to be too late.
Touched(a) ==
    /\ tx' \in [Attempts -> Transactions]
    /\ \A b \in Attempts \ {a} : tx'[b] = tx[b]
    /\ tx'[a].at \in {tx[a].at, "none"}
    /\ tx'[a].at = "sent" => tx'[a] = tx[a]
    /\ "row" \in tx'[a].did => Idempotent(a)

\* Answering and forgetting an execution, with a transaction it may have opened.
LEMMA EndKeeps ==
    ASSUME TypeOK, AtomicInv, NEW a \in Attempts, NEW reply \in Replies \cup {None},
           Fits(a, reply), Ends(a), Tell(a, reply) \/ UNCHANGED answer,
           UNCHANGED <<rows, applied, stray, worker, host, aged, sweep, deploys, deleted,
                       before, vetted>>, losses' \in 0..MaxLosses,
           tx' \in [Attempts -> Transactions], \A b \in Attempts \ {a} : tx'[b] = tx[b],
           tx'[a] \in {tx[a], NoTx, [at |-> "open", did |-> {}]},
           Body(a) \in Guarded /\ tx'[a] # tx[a] => run[a].place = "owner"
    PROVE  Alone(a) /\ AttemptOK(a)'
<1>1. Moved(a, "done", None, None) BY EndMoves
<1>2. /\ answer' \in [Attempts -> Replies \cup {None}]
      /\ answer'[a] \in {answer[a], reply}
      /\ \A b \in Attempts \ {a} : answer'[b] = answer[b]
  <2>1. CASE Tell(a, reply) BY <2>1, TellTells
  <2>2. CASE UNCHANGED answer BY <2>2 DEF TypeOK
  <2> QED BY <2>1, <2>2
<1>3. Alone(a) BY <1>1, <1>2 DEF Alone, Moved, TypeOK
<1>4. History BY <1>3, AloneOK
<1>5. AttemptOK(a) BY DEF AtomicInv
<1> QED BY <1>1, <1>2, <1>3, <1>4, <1>5, EndedOK DEF Moved

\* Aborting an input that opened nothing.
LEMMA AbortKeeps ==
    ASSUME TypeOK, AtomicInv, NEW a \in Attempts, NEW code \in Codes,
           Fits(a, Err(a, code)), Abort(a, code)
    PROVE  TypeOK' /\ AtomicInv'
<1>1. Err(a, code) \in Replies BY ReplyTypes
<1>2. Alone(a) /\ AttemptOK(a)' /\ tx' = tx
  <2>1. /\ Ends(a) /\ Tell(a, Err(a, code)) /\ UNCHANGED <<tx, rows, applied, stray, vetted>>
        /\ UNCHANGED <<worker, host, aged, sweep, deploys, losses, deleted, before>>
    BY DEF Abort, database, world
  <2> QED BY <1>1, <2>1, EndKeeps DEF TypeOK
<1> QED BY <1>2, AloneOK

\* Closing an execution.
LEMMA CloseKeeps ==
    ASSUME TypeOK, AtomicInv, NEW a \in Attempts, NEW code \in Codes,
           Fits(a, Err(a, code)), Close(a, Err(a, code)),
           run[a].at \in Started \ Ending, Touched(a),
           UNCHANGED <<answer, rows, applied, world, vetted>>,
           stray' \subseteq Attempts, \A b \in Attempts \ {a} : b \in stray' => b \in stray,
           a \in stray' => \/ a \in stray
                           \/ /\ run[a].at = "AtomicExecute"
                              /\ run[a].late \/ code \notin Definite
    PROVE  Alone(a) /\ AttemptOK(a)'
<1>1. Moved(a, "CloseRollback", Err(a, code), Err(a, "internal"))
  BY CloseMoves, ReplyTypes
<1>2. Alone(a) BY <1>1 DEF Alone, Moved, Touched, TypeOK, world
<1>3. History BY <1>2, AloneOK
<1>4. AttemptOK(a) BY DEF AtomicInv
<1>5. "internal" \in Codes \ (Definite \cup {"committed"}) BY CodeTypes
<1>6. /\ Fits(a, Err(a, "internal")) /\ Fits(a, None) /\ Err(a, "internal").code \notin Definite
      /\ Err(a, code).code = code
  BY <1>5, NoClaim, ReplyTypes
<1>7. answer[a].code \notin Definite
  BY <1>4 DEF AttemptOK, RejectionExcludes, Started, Ending
<1>8. "CloseRollback" \in Ending BY DEF Ending
<1> HIDE DEF Fits
<1> QED
  <2> DEFINE reply == Err(a, code)
             failure == Err(a, "internal")
  <2>1. /\ run'[a].at = "CloseRollback" /\ run'[a].reply = reply /\ run'[a].failure = failure
        /\ run'[a].late = run[a].late /\ run'[a].place = run[a].place
        /\ before' = before /\ applied' = applied /\ answer' = answer
    BY <1>1 DEF Moved, world
  <2>2. /\ Fits(a, reply) /\ Fits(a, failure) /\ failure.code \notin Definite
        /\ reply.code = code
    BY <1>6
  <2> HIDE DEF reply, failure
  <2> QED BY <1>2, <1>3, <1>4, <1>6, <1>7, <1>8, <2>1, <2>2, EndingOK DEF Touched

\* Waiting for the next effect.
LEMMA AwaitKeeps ==
    ASSUME TypeOK, AtomicInv, NEW a \in Attempts,
           NEW task \in Tasks \ (Ending \cup {"new", "RequestBinding", "done"}),
           Await(a, task), run[a].at \in Started \cup {"AtomicForward", "AtomicBinding"},
           run[a].at \notin Ending \cup {"AtomicCommit"},
           UNCHANGED <<answer, rows, applied, stray, world>>,
           vetted' \subseteq Attempts, vetted \subseteq vetted',
           tx' \in [Attempts -> Transactions], \A b \in Attempts \ {a} : tx'[b] = tx[b],
           tx'[a].at # "sent", task \in Unopened => tx'[a].at = "none",
           "row" \in tx'[a].did => Idempotent(a),
           task \in {"AtomicLookup", "AtomicInsert"} => Idempotent(a),
           task = "AtomicCommit" /\ tx'[a].at = "open" /\ Idempotent(a) => "row" \in tx'[a].did,
           /\ run[a].place = "owner"
           /\ task \in {"AtomicCommitBinding", "AtomicInsert", "AtomicCommit"}
           => a \in vetted',
           task \in PastLookup => before[a] \subseteq deleted
    PROVE  Alone(a) /\ AttemptOK(a)'
<1>1. Moved(a, task, run[a].reply, run[a].failure) BY AwaitMoves
<1>2. Alone(a) BY <1>1 DEF Alone, Moved, TypeOK, world
<1>3. History BY <1>2, AloneOK
<1>4. AttemptOK(a) BY DEF AtomicInv
<1>5. Body(a) \in Guarded => run[a].place = "owner" BY <1>4 DEF AttemptOK, ChecksFirst
<1>6. /\ run'[a].at = task /\ run'[a].reply = run[a].reply /\ run'[a].failure = run[a].failure
      /\ run'[a].late = run[a].late /\ run'[a].place = run[a].place
      /\ before' = before /\ applied' = applied /\ answer' = answer /\ stray' = stray
  BY <1>1 DEF Moved, world
<1>7. run[a].at # "done" BY DEF Started
<1>8. run[a].late => run[a].place = "owner" BY <1>4 DEF AttemptOK, DeadlineIsOwners
<1> QED BY <1>2, <1>3, <1>4, <1>5, <1>6, <1>7, <1>8, WaitingOK

\* The deadline that closes an execution justifies its answer.
LEMMA ExpiryFits ==
    ASSUME NEW a \in Attempts, AttemptOK(a), run[a].at \notin Ending \cup {"done", "AtomicCommit"},
           Expired(a)
    PROVE  Fits(a, Err(a, "unavailable"))
<1>1. "unavailable" \in Definite \ {"conflict"} BY DEF Definite
<1> QED BY <1>1, Unsent, Rejection DEF Expired

(***************************************************************************)
(* The engine's steps                                                      *)
(***************************************************************************)
\* An attempt arrives: it runs, or its snapshot is stale.
LEMMA RequestKeeps ==
    ASSUME TypeOK, AtomicInv, NEW a \in Attempts, Request(a)
    PROVE  TypeOK' /\ AtomicInv'
<1>1. AttemptOK(a) BY DEF AtomicInv
<1>2. /\ run[a].at = "new"
      /\ before' = [before EXCEPT ![a] = {b \in applied \ deleted :
                                             Idempotent(a) /\ SameRequest(a, b)}]
      /\ UNCHANGED <<tx, rows, applied, stray>>
      /\ UNCHANGED <<worker, host, aged, sweep, deploys, losses, deleted, vetted>>
  BY DEF Request, database
<1>3. /\ ~MaySend(a) /\ tx[a].at = "none" /\ a \notin applied /\ a \notin stray
      /\ answer[a].code \notin Definite /\ run[a].reply = None /\ run[a].failure = None
  BY <1>1, <1>2, Unsent DEF Ending, AttemptOK, SentByCommit, Unopened
<1>4. "stale" \in Codes /\ Err(a, "stale") \in Replies /\ Err(a, "stale").code = "stale"
  BY ReplyTypes DEF Codes, Definite
<1>5. \E task \in {"RequestBinding", "done"} :
         /\ Moved(a, task, None, None)
         /\ answer' \in [Attempts -> Replies \cup {None}]
         /\ answer'[a] \in {answer[a], Err(a, "stale")}
         /\ answer'[a] # answer[a] => task = "done"
         /\ \A b \in Attempts \ {a} : answer'[b] = answer[b]
  <2>1. CASE Ends(a) /\ Tell(a, Err(a, "stale"))
    <3>1. Moved(a, "done", None, None) BY <2>1, EndMoves
    <3> QED BY <2>1, <3>1, <1>4, TellTells
  <2>2. CASE /\ run' = [run EXCEPT ![a].at = "RequestBinding", ![a].snap = worker]
             /\ UNCHANGED answer
    <3> DEFINE r == [run[a] EXCEPT !.at = "RequestBinding", !.snap = worker]
    <3>1. r \in Runs /\ r.at = "RequestBinding" BY RunParts DEF TypeOK, Runs, Tasks
    <3>2. /\ r.reply = run[a].reply /\ r.failure = run[a].failure
          /\ r.request = run[a].request /\ r.place = run[a].place
          /\ r.late = run[a].late
      BY RunParts DEF Runs
    <3>3. run' = [run EXCEPT ![a] = r] BY <2>2
    <3> HIDE DEF r
    <3>4. Moved(a, "RequestBinding", None, None)
      BY <3>1, <3>2, <3>3, <1>3, RunParts DEF Moved
    <3> QED BY <3>4, <2>2 DEF TypeOK
  <2> QED BY <2>1, <2>2 DEF Request
<1>6. PICK task \in {"RequestBinding", "done"} :
         /\ Moved(a, task, None, None)
         /\ answer' \in [Attempts -> Replies \cup {None}]
         /\ answer'[a] \in {answer[a], Err(a, "stale")}
         /\ answer'[a] # answer[a] => task = "done"
         /\ \A b \in Attempts \ {a} : answer'[b] = answer[b]
  BY <1>5
<1>7. before' \in [Attempts -> SUBSET Attempts] BY <1>2 DEF TypeOK
<1>8. Alone(a) BY <1>2, <1>6, <1>7 DEF Alone, Moved, TypeOK
<1>9. History BY <1>8, AloneOK
<1>10. AttemptOK(a)'
  <2>1. /\ run'[a].at \in {"RequestBinding", "done"} /\ run'[a].reply = None
        /\ run'[a].failure = None /\ run'[a].place = run[a].place
        /\ ~MaySend(a)' /\ tx' = tx /\ applied' = applied /\ a \notin stray'
    BY <1>2, <1>3, <1>6 DEF Moved, MaySend
  <2>2. None.code \notin Definite /\ None # Given BY DEF None, Given, Definite
  <2>3. /\ Body(a)' = Body(a) /\ (Idempotent(a)' <=> Idempotent(a))
    BY <1>9, RequestsKept
  <2>4. RepliesLast(a)' BY <2>1, <2>2 DEF RepliesLast
  <2>5. SentByCommit(a)' BY <2>1, <1>3 DEF SentByCommit
  <2>6. RejectionExcludes(a)' BY <2>1, <2>2, <1>6, <1>3 DEF RejectionExcludes, Moved
  <2>7. RepliesTrue(a)'
    <3>1. \A r \in {run'[a].reply, run'[a].failure, answer'[a]} :
             Carries(a, r) /\ Contends(a, r)
      BY <2>1, <1>1, <1>3, <1>4, <1>6 DEF AttemptOK, RepliesTrue, Carries, Contends
    <3> QED BY <3>1, <1>9, ReplyKept DEF RepliesTrue
  <2>8. RowFirst(a)' BY <2>1, <2>3, <1>1, <1>3 DEF AttemptOK, RowFirst
  <2>9. ChecksFirst(a)' BY <2>1, <2>3, <1>3 DEF ChecksFirst, Started
  <2>10. LookedUp(a)'
    <3>1. \A b \in before'[a] : b \in applied /\ Idempotent(a) /\ SameRequest(a, b)
      BY <1>2 DEF TypeOK
    <3>2. \A b \in before'[a] : (b \in applied /\ Idempotent(a) /\ SameRequest(a, b))'
      BY <3>1, <2>1, <2>3, <1>9, RequestsKept DEF TypeOK
    <3>3. answer'[a].code \notin Definite \ {"stale"} BY <1>3, <1>4, <1>6
    <3> QED BY <2>1, <2>2, <3>2, <3>3 DEF LookedUp, PastLookup
  <2>11. DeadlineIsOwners(a)'
    BY <1>1, <1>2, <1>6, <2>1, <2>2 DEF AttemptOK, DeadlineIsOwners, Moved
  <2> QED BY <2>4, <2>5, <2>6, <2>7, <2>8, <2>9, <2>10, <2>11 DEF AttemptOK
<1> QED BY <1>2, <1>8, <1>10, AloneOK

\* Codes that claim nothing, as the engine answers before it runs anything.
LEMMA AbortCodes ==
    ASSUME TypeOK, AtomicInv, NEW a \in Attempts,
           NEW code \in {"internal", "binding_rejected", "database", "timeout"}
    PROVE  code \in Codes \ (Definite \cup {"committed"}) /\ Fits(a, Err(a, code))
           /\ (Abort(a, code) => TypeOK' /\ AtomicInv')
<1>1. code \in Codes \ (Definite \cup {"committed"}) BY CodeTypes
<1> QED BY <1>1, NoClaim, AbortKeeps

\* A request that never had a key to run under left no trace.
LEMMA UnkeyedFits ==
    ASSUME TypeOK, NEW a \in Attempts, AttemptOK(a), ~Idempotent(a),
           run[a].at \notin Ending \cup {"done", "AtomicCommit"},
           NEW code \in Definite \ {"conflict"}
    PROVE  Fits(a, Err(a, code))
<1>1. before[a] = {} BY DEF AttemptOK, LookedUp, TypeOK
<1> QED BY <1>1, Unsent, Rejection DEF Spared

\* A compile that fails.
LEMMA CompileFailKeeps ==
    ASSUME TypeOK, AtomicInv, NEW a \in Attempts, NEW version, CompileFails(a, version),
           run[a].at \notin Ending \cup {"done", "AtomicCommit"}
    PROVE  TypeOK' /\ AtomicInv'
<1>1. CASE Keyed(a) BY <1>1, AbortCodes DEF CompileFails
<1>2. CASE ~Keyed(a)
  <2>1. ~Idempotent(a) BY <1>2, RequestsAssumption DEF Keyed, Idempotent
  <2>2. "compile" \in Codes /\ "compile" \in Definite \ {"conflict"} BY DEF Codes, Definite
  <2>3. Fits(a, Err(a, "compile")) BY <2>1, <2>2, UnkeyedFits DEF AtomicInv
  <2> QED BY <1>2, <2>2, <2>3, AbortKeeps DEF CompileFails
<1> QED BY <1>1, <1>2

\* The binding of a request, its compile and where it runs.
LEMMA RequestBindingKeeps ==
    ASSUME TypeOK, AtomicInv, NEW a \in Attempts, RequestBinding(a)
    PROVE  TypeOK' /\ AtomicInv'
<1>1. AttemptOK(a) /\ run[a].at = "RequestBinding" BY DEF AtomicInv, RequestBinding
<1>2. run[a].at \notin Ending \cup {"done", "AtomicCommit"} BY <1>1 DEF Ending
<1>3. CASE BindingFails(a) BY <1>3, AbortCodes DEF BindingFails
<1>4. CASE CompileFails(a, run[a].snap) BY <1>4, <1>2, CompileFailKeeps
<1>5. CASE run[a].request.key = "malformed" /\ Abort(a, "key_invalid")
  <2>1. ~Idempotent(a) BY <1>5, RequestsAssumption DEF Idempotent
  <2>2. "key_invalid" \in Codes /\ "key_invalid" \in Definite \ {"conflict"}
    BY DEF Codes, Definite
  <2>3. Fits(a, Err(a, "key_invalid")) BY <1>1, <1>2, <2>1, <2>2, UnkeyedFits
  <2> QED BY <1>5, <2>2, <2>3, AbortKeeps
<1>6. CASE /\ run' = [run EXCEPT
                        ![a].at = IF Forwards(a) THEN "AtomicForward" ELSE "AtomicOpen",
                        ![a].place = IF Forwards(a) THEN "owner" ELSE "direct"]
           /\ Waits
  <2> DEFINE task == IF Forwards(a) THEN "AtomicForward" ELSE "AtomicOpen"
             place == IF Forwards(a) THEN "owner" ELSE "direct"
             r == [run[a] EXCEPT !.at = task, !.place = place]
  <2>1. /\ task \in Unopened /\ task \in Tasks \ (Ending \cup {"done"})
        /\ task \notin {"AtomicLookup", "AtomicInsert", "AtomicCommit", "AtomicCommitBinding"}
        /\ task \notin PastLookup
        /\ place \in {"none", "direct", "owner"}
        /\ Body(a) \in Guarded => place = "owner"
    BY DEF Forwards, Unopened, Tasks, Ending, PastLookup
  <2>2. run' = [run EXCEPT ![a] = r] BY <1>6
  <2> HIDE DEF task, place
  <2>3. r \in Runs /\ r.at = task /\ r.place = place BY <2>1, RunParts DEF Runs
  <2>4. /\ r.reply = run[a].reply /\ r.failure = run[a].failure
        /\ r.request = run[a].request /\ r.late = run[a].late
    BY RunParts DEF Runs
  <2> HIDE DEF r
  <2>5. /\ UNCHANGED <<answer, tx, rows, applied, stray, vetted>>
        /\ UNCHANGED <<worker, host, aged, sweep, deploys, losses, deleted, before>>
    BY <1>6 DEF Waits, database, world
  <2>6. run'[a] = r /\ run' \in [Attempts -> Runs] /\ \A b \in Attempts \ {a} : run'[b] = run[b]
    BY <2>2, <2>3, RunParts
  <2>7. Alone(a) BY <2>4, <2>5, <2>6 DEF Alone, TypeOK
  <2>8. tx[a].at = "none" /\ ("row" \in tx[a].did => Idempotent(a))
    BY <1>1 DEF AttemptOK, SentByCommit, Unopened, RowFirst
  <2>9. AttemptOK(a)'
    <3>1. ~run'[a].late BY <1>1, <2>4, <2>6 DEF AttemptOK, DeadlineIsOwners
    <3> QED BY <1>1, <1>2, <2>1, <2>3, <2>4, <2>5, <2>6, <2>7, <2>8, <3>1, AloneOK, WaitingOK
  <2> QED BY <2>5, <2>7, <2>9, AloneOK
<1> QED BY <1>3, <1>4, <1>5, <1>6 DEF RequestBinding, RequestChecked

\* The caller stops waiting for the owner.
LEMMA ForwardFailedKeeps ==
    ASSUME TypeOK, AtomicInv, NEW a \in Attempts, ForwardFailed(a)
    PROVE  TypeOK' /\ AtomicInv'
<1>1. "internal" \in Codes BY CodeTypes
<1>2. Err(a, "internal") \in Replies /\ Err(a, "internal").code = "internal"
  BY <1>1, ReplyTypes
<1>3. /\ UNCHANGED <<run, tx, rows, applied, stray, vetted>>
      /\ UNCHANGED <<worker, host, aged, sweep, deploys, losses, deleted, before>>
      /\ Tell(a, Err(a, "internal"))
  BY DEF ForwardFailed, database, world
<1>4. /\ answer' \in [Attempts -> Replies \cup {None}]
      /\ answer'[a] \in {answer[a], Err(a, "internal")}
      /\ \A b \in Attempts \ {a} : answer'[b] = answer[b]
  BY <1>2, <1>3, TellTells
<1>5. Alone(a) BY <1>3, <1>4 DEF Alone, TypeOK
<1>6. Left(a) BY <1>2, <1>3, <1>4 DEF Left, MaySend
<1>7. AttemptOK(a)' BY <1>5, <1>6, AloneOK, LeftOK DEF AtomicInv
<1> QED BY <1>3, <1>5, <1>7, AloneOK

(***************************************************************************)
(* The execution's steps                                                   *)
(***************************************************************************)
\* The owner takes an input, or refuses it.
LEMMA AtomicInputKeeps ==
    ASSUME TypeOK, AtomicInv, NEW a \in Attempts, AtomicInput(a)
    PROVE  TypeOK' /\ AtomicInv'
<1>1. CASE Abort(a, "internal") BY <1>1, AbortCodes
<1>2. CASE Await(a, "AtomicBinding") /\ Waits
  <2>1. /\ UNCHANGED <<answer, tx, rows, applied, stray, world, vetted>>
    BY <1>2 DEF Waits, database
  <2>2. AttemptOK(a) /\ run[a].at = "AtomicForward" BY DEF AtomicInv, AtomicInput
  <2>3. tx[a].at = "none" /\ ("row" \in tx[a].did => Idempotent(a))
    BY <2>2 DEF AttemptOK, SentByCommit, Unopened, RowFirst
  <2>4. "AtomicBinding" \in Tasks \ (Ending \cup {"done"}) /\ "AtomicBinding" \notin PastLookup
    BY DEF Tasks, Ending, PastLookup
  <2>5. Alone(a) /\ AttemptOK(a)'
    BY <1>2, <2>1, <2>2, <2>3, <2>4, AwaitKeeps DEF TypeOK, Ending
  <2> QED BY <2>1, <2>5, AloneOK
<1> QED BY <1>1, <1>2 DEF AtomicInput

\* The owner's binding and its compile.
LEMMA AtomicBindingKeeps ==
    ASSUME TypeOK, AtomicInv, NEW a \in Attempts, AtomicBinding(a)
    PROVE  TypeOK' /\ AtomicInv'
<1>1. AttemptOK(a) /\ run[a].at = "AtomicBinding" BY DEF AtomicInv, AtomicBinding
<1>2. CASE BindingFails(a) BY <1>2, AbortCodes DEF BindingFails
<1>3. CASE CompileFails(a, run[a].snap) BY <1>1, <1>3, CompileFailKeeps DEF Ending
<1>4. CASE Await(a, "AtomicOpen") /\ Waits
  <2>1. /\ UNCHANGED <<answer, tx, rows, applied, stray, world, vetted>>
    BY <1>4 DEF Waits, database
  <2>3. tx[a].at = "none" /\ ("row" \in tx[a].did => Idempotent(a))
    BY <1>1 DEF AttemptOK, SentByCommit, Unopened, RowFirst
  <2>4. "AtomicOpen" \in Tasks \ (Ending \cup {"done"}) /\ "AtomicOpen" \notin PastLookup
    BY DEF Tasks, Ending, PastLookup
  <2>5. Alone(a) /\ AttemptOK(a)'
    BY <1>1, <1>4, <2>1, <2>3, <2>4, AwaitKeeps DEF TypeOK, Ending
  <2> QED BY <2>1, <2>5, AloneOK
<1> QED BY <1>2, <1>3, <1>4 DEF AtomicBinding

\* A write that begins is the only writer.
LEMMA BeginsAlone ==
    ASSUME TypeOK, AtomicInv, NEW a \in Attempts, Alone(a), MayBegin(a), Begun(a)
    PROVE  RowsTrue' /\ OneWriter'
<1>1. /\ tx' = [tx EXCEPT ![a] = [at |-> "open", did |-> {}]] /\ tx[a].at = "none"
      /\ Body(a) \in Reads \/ Writer = {}
      /\ tx \in [Attempts -> Transactions]
  BY DEF Begun, MayBegin, TypeOK
<1>2. tx'[a].did = {} /\ \A b \in Attempts \ {a} : tx'[b] = tx[b] BY <1>1
<1>3. History /\ UNCHANGED <<rows, applied, aged, deleted>> BY AloneOK DEF Alone
<1>4. RowsTrue'
  <2>1. \A k \in KeyHashes : rows[k] # "none" => rows[k] \in Attempts BY DEF TypeOK
  <2>2. \A c \in Attempts : KeyHash(run'[c].request) = KeyHash(run[c].request)
    BY <1>3 DEF History
  <2> QED BY <1>3, <2>1, <2>2, RequestsKept DEF AtomicInv, RowsTrue, TypeOK
<1>5. Writer' \subseteq IF Body(a) \in Reads THEN Writer ELSE {a}
  BY <1>1, <1>2, <1>3, RequestsKept DEF Writer
<1> QED BY <1>2, <1>3, <1>4, <1>5, RequestsKept DEF AtomicInv, OneWriter

\* The next query of an execution.
LEMMA QueryTask ==
    ASSUME NEW a \in Attempts
    PROVE  /\ AtomicQuery(a) \in {"AtomicLookup", "AtomicExecute"}
           /\ AtomicQuery(a) \in Tasks \ (Ending \cup {"done"})
           /\ AtomicQuery(a) \notin Unopened
           /\ AtomicQuery(a) = "AtomicLookup" <=> Idempotent(a)
BY DEF AtomicQuery, Tasks, Ending, Unopened

\* An execution without a key met no row before it.
LEMMA UnkeyedIsFirst ==
    ASSUME TypeOK, NEW a \in Attempts, AttemptOK(a), ~Idempotent(a)
    PROVE  before[a] \subseteq deleted
BY DEF AttemptOK, LookedUp, TypeOK

\* BEGIN.
LEMMA AtomicOpenKeeps ==
    ASSUME TypeOK, AtomicInv, NEW a \in Attempts, AtomicOpen(a)
    PROVE  TypeOK' /\ AtomicInv'
<1> DEFINE opened == [at |-> "open", did |-> {}]
<1>1. AttemptOK(a) /\ run[a].at = "AtomicOpen" BY DEF AtomicInv, AtomicOpen
<1>2. /\ opened \in Transactions /\ opened.at = "open" /\ opened.did = {}
  BY DEF Transactions
<1>3. Begun(a) => /\ tx' \in [Attempts -> Transactions] /\ tx'[a] = opened
                  /\ \A b \in Attempts \ {a} : tx'[b] = tx[b]
  BY <1>2, TxParts DEF Begun
<1>4. Body(a) \in Guarded => run[a].place = "owner"
  BY <1>1 DEF AttemptOK, ChecksFirst, Started, Tasks
<1>5. run[a].at \in Started BY <1>1 DEF Started, Tasks
<1>6. CASE /\ MayBegin(a) /\ Begun(a)
           /\ Await(a, IF run[a].place = "owner" THEN "AtomicPersist" ELSE AtomicQuery(a))
           /\ UNCHANGED <<answer, rows, applied, stray, world, vetted>>
  <2> DEFINE task == IF run[a].place = "owner" THEN "AtomicPersist" ELSE AtomicQuery(a)
  <2>1. /\ task \in Tasks \ (Ending \cup {"done"})
        /\ task \notin Unopened /\ task \notin {"AtomicInsert", "AtomicCommit", "AtomicCommitBinding"}
        /\ task = "AtomicLookup" => Idempotent(a)
        /\ task \in PastLookup => ~Idempotent(a)
    BY QueryTask DEF Tasks, Ending, Unopened, PastLookup
  <2>2. Await(a, task) BY <1>6
  <2> HIDE DEF task, opened
  <2>3. Alone(a) /\ AttemptOK(a)'
    BY <1>1, <1>2, <1>3, <1>5, <1>6, <2>1, <2>2, AwaitKeeps, UnkeyedIsFirst DEF Ending, TypeOK, Unopened
  <2> QED BY <1>6, <2>3, AloneOK, BeginsAlone
<1>7. CASE /\ UNCHANGED tx \/ (MayBegin(a) /\ Begun(a))
           /\ Ends(a)
           /\ \E class \in {"unreachable", "rejected", "unknown"} :
                 Tell(a, Err(a, ForClass(class)))
           /\ UNCHANGED <<rows, applied, stray, world, vetted>>
  <2>1. PICK class \in {"unreachable", "rejected", "unknown"} : Tell(a, Err(a, ForClass(class)))
    BY <1>7
  <2>2. ForClass(class) \in {"database", "binding_rejected", "internal"} BY DEF ForClass
  <2> DEFINE reply == Err(a, ForClass(class))
  <2>3. reply \in Replies /\ Fits(a, reply) BY <2>2, AbortCodes, ReplyTypes
  <2>4. tx' = tx \/ Begun(a) BY <1>7
  <2> HIDE DEF reply
  <2>5. Alone(a) /\ AttemptOK(a)'
    <3>1. Tell(a, reply) BY <2>1 DEF reply
    <3>2. /\ tx' \in [Attempts -> Transactions] /\ \A b \in Attempts \ {a} : tx'[b] = tx[b]
          /\ tx'[a] \in {tx[a], opened}
      BY <2>4, <1>3 DEF TypeOK
    <3>3. /\ UNCHANGED <<rows, applied, stray, vetted>>
          /\ UNCHANGED <<worker, host, aged, sweep, deploys, losses, deleted, before>>
          /\ losses' \in 0..MaxLosses
      BY <1>7 DEF world, TypeOK
    <3> QED BY <1>4, <1>7, <2>3, <3>1, <3>2, <3>3, EndKeeps
  <2> QED BY <1>7, <2>5, AloneOK, BeginsAlone
<1> QED BY <1>6, <1>7 DEF AtomicOpen

\* Closing an execution with nothing else done.
LEMMA WaitsClose ==
    ASSUME TypeOK, AtomicInv, NEW a \in Attempts, NEW code \in Codes,
           Fits(a, Err(a, code)), Close(a, Err(a, code)), Waits,
           run[a].at \in Started \ Ending
    PROVE  TypeOK' /\ AtomicInv'
<1>1. UNCHANGED <<answer, tx, rows, applied, stray, world, vetted>>
  BY DEF Waits, database
<1>2. "row" \in tx[a].did => Idempotent(a) BY DEF AtomicInv, AttemptOK, RowFirst
<1>3. Touched(a) BY <1>1, <1>2 DEF Touched, TypeOK
<1>4. Alone(a) /\ AttemptOK(a)' BY <1>1, <1>3, CloseKeeps DEF TypeOK
<1> QED BY <1>1, <1>4, AloneOK

\* Waiting for the next effect with nothing else done.
LEMMA WaitsAwait ==
    ASSUME TypeOK, AtomicInv, NEW a \in Attempts,
           NEW task \in Tasks \ (Ending \cup Unopened \cup {"done"}),
           Await(a, task), Waits, run[a].at \in Started \ (Ending \cup {"AtomicCommit"}),
           task \in {"AtomicLookup", "AtomicInsert"} => Idempotent(a),
           task = "AtomicCommit" => ~Idempotent(a),
           /\ run[a].place = "owner"
           /\ task \in {"AtomicCommitBinding", "AtomicInsert", "AtomicCommit"}
           => a \in vetted,
           task \in PastLookup => before[a] \subseteq deleted
    PROVE  TypeOK' /\ AtomicInv'
<1>1. UNCHANGED <<answer, tx, rows, applied, stray, world, vetted>>
  BY DEF Waits, database
<1>2. AttemptOK(a) BY DEF AtomicInv
<1>3. "row" \in tx[a].did => Idempotent(a) BY <1>2 DEF AttemptOK, RowFirst
<1>4. tx[a].at # "sent" BY <1>2, Unsent DEF Started
<1>5. Alone(a) /\ AttemptOK(a)' BY <1>1, <1>3, <1>4, AwaitKeeps DEF TypeOK, Unopened
<1> QED BY <1>1, <1>5, AloneOK

\* A deadline found passed by an effect that returned.
LEMMA ExpireKeeps ==
    ASSUME TypeOK, AtomicInv, NEW a \in Attempts, Expired(a), ExpireAtomic(a), Waits,
           run[a].at \in Started \ (Ending \cup {"AtomicCommit"})
    PROVE  TypeOK' /\ AtomicInv'
<1>1. Fits(a, Err(a, "unavailable")) BY ExpiryFits DEF AtomicInv, Started
<1>2. "unavailable" \in Codes BY DEF Codes, Definite
<1> QED BY <1>1, <1>2, WaitsClose DEF ExpireAtomic

\* The owner's record and timer.
LEMMA AtomicPersistKeeps ==
    ASSUME TypeOK, AtomicInv, NEW a \in Attempts, AtomicPersist(a)
    PROVE  TypeOK' /\ AtomicInv'
<1>1. /\ AttemptOK(a) /\ run[a].at \in {"AtomicPersist", "AtomicTimer"} /\ Waits
      /\ run[a].at \in Started \ (Ending \cup {"AtomicCommit"})
  BY DEF AtomicInv, AtomicPersist, Started, Tasks, Ending
<1>2. CASE Await(a, "AtomicTimer")
  <2>1. "AtomicTimer" \in Tasks \ (Ending \cup Unopened \cup {"done"}) /\ "AtomicTimer" \notin PastLookup
    BY DEF Tasks, Ending, Unopened, PastLookup
  <2> QED BY <1>1, <1>2, <2>1, WaitsAwait
<1>3. CASE UnlessExpired(a, Await(a, AtomicQuery(a)))
  <2>1. CASE Expired(a) BY <1>1, <1>3, <2>1, ExpireKeeps DEF UnlessExpired
  <2>2. CASE Await(a, AtomicQuery(a))
    <3> DEFINE task == AtomicQuery(a)
    <3>1. /\ task \in Tasks \ (Ending \cup Unopened \cup {"done"})
          /\ task \notin {"AtomicInsert", "AtomicCommit", "AtomicCommitBinding"}
          /\ task = "AtomicLookup" => Idempotent(a)
          /\ task \in PastLookup => ~Idempotent(a)
      BY QueryTask DEF PastLookup
    <3> HIDE DEF task
    <3> QED BY <1>1, <2>2, <3>1, WaitsAwait, UnkeyedIsFirst DEF task
  <2> QED BY <1>3, <2>1, <2>2 DEF UnlessExpired
<1>4. CASE Close(a, Err(a, "internal")) BY <1>1, <1>4, WaitsClose, AbortCodes
<1> QED BY <1>2, <1>3, <1>4 DEF AtomicPersist

\* What the row of a key says of the attempts before: none of them is left, or
\* the row is of one with the same request.
LEMMA RowSays ==
    ASSUME TypeOK, AtomicInv, NEW a \in Attempts, Idempotent(a),
           NEW row, row = rows[OwnerOf(a)]
    PROVE  /\ row = "none" => before[a] \subseteq deleted
           /\ row # "none" =>
                 /\ row \in applied /\ row \in Attempts
                 /\ run[row].request.who = run[a].request.who
                 /\ run[row].request.key = run[a].request.key
                 /\ SameFingerprint(row, a) => SameRequest(a, row)
                 /\ ~SameFingerprint(row, a) => /\ Body(row) # Body(a)
                                                /\ before[a] \subseteq deleted
<1>1. run[a].request \in Requests /\ run[a].request.key \in Keys
  BY RunParts DEF Idempotent
<1>2. OwnerOf(a) = KeyHash(run[a].request) /\ OwnerOf(a) \in KeyHashes
  BY <1>1, RequestParts DEF OwnerOf
<1>3. ASSUME NEW b \in before[a], b \notin deleted
      PROVE  row = b /\ SameFingerprint(b, a) /\ b \in Attempts
  <2>1. b \in applied /\ SameRequest(a, b) BY <1>3 DEF AtomicInv, AttemptOK, LookedUp
  <2>2. b \in Attempts BY <2>1 DEF TypeOK
  <2>3. Idempotent(b) /\ run[b].request = run[a].request
    BY <2>1 DEF SameRequest, Idempotent, Body
  <2>4. rows[KeyHash(run[b].request)] = b BY <1>3, <2>1, <2>3 DEF AtomicInv, RowsTrue
  <2> QED BY <1>2, <2>2, <2>3, <2>4 DEF SameFingerprint
<1>4. "none" \notin Attempts BY RequestsAssumption
<1>5. row = "none" => before[a] \subseteq deleted BY <1>3, <1>4
<1>6. ASSUME row # "none"
      PROVE  /\ row \in applied /\ row \in Attempts
             /\ run[row].request.who = run[a].request.who
             /\ run[row].request.key = run[a].request.key
             /\ SameFingerprint(row, a) => SameRequest(a, row)
             /\ ~SameFingerprint(row, a) => /\ Body(row) # Body(a)
                                            /\ before[a] \subseteq deleted
  <2>1. row \in applied /\ KeyHash(run[row].request) = KeyHash(run[a].request)
    BY <1>2, <1>6 DEF AtomicInv, RowsTrue
  <2>2. row \in Attempts BY <2>1 DEF TypeOK
  <2>3. run[row].request \in Requests BY <2>2, RunParts
  <2>4. /\ run[row].request.who = run[a].request.who
        /\ run[row].request.key = run[a].request.key
    BY <2>1 DEF KeyHash
  <2>5. SameFingerprint(row, a) <=> Body(row) = Body(a)
    BY <2>4 DEF SameFingerprint, Fingerprint, Body
  <2>6. Body(row) = Body(a) => SameRequest(a, row)
    BY <1>1, <2>3, <2>4, RequestParts DEF Body, SameRequest
  <2>7. ~SameFingerprint(row, a) => before[a] \subseteq deleted BY <1>3
  <2> QED BY <2>1, <2>2, <2>4, <2>5, <2>6, <2>7
<1> QED BY <1>5, <1>6

\* The lookup returned.
LEMMA LookupReturnedKeeps ==
    ASSUME TypeOK, AtomicInv, NEW a \in Attempts, LookupReturned(a)
    PROVE  TypeOK' /\ AtomicInv'
<1> DEFINE row == rows[OwnerOf(a)]
<1>1. /\ AttemptOK(a) /\ run[a].at = "AtomicLookup" /\ Waits
      /\ run[a].at \in Started \ (Ending \cup {"AtomicCommit"})
  BY DEF AtomicInv, LookupReturned, Started, Tasks, Ending
<1>2. Idempotent(a) BY <1>1 DEF AttemptOK, RowFirst
<1>3. ~MaySend(a) /\ a \notin stray /\ answer[a].code \notin Definite
  BY <1>1, Unsent DEF Ending
<1>4. CASE Expired(a)
  BY <1>1, <1>4, ExpireKeeps DEF LookupReturned, UnlessExpired
<1>5. CASE row = "none" /\ Await(a, "AtomicExecute")
  <2>1. "AtomicExecute" \in Tasks \ (Ending \cup Unopened \cup {"done"})
    BY DEF Tasks, Ending, Unopened
  <2>2. before[a] \subseteq deleted BY <1>2, <1>5, RowSays
  <2> QED BY <1>1, <1>5, <2>1, <2>2, WaitsAwait
<1>6. CASE row # "none" /\ ~SameFingerprint(row, a) /\ Close(a, Err(a, "conflict"))
  <2>1. "conflict" \in Codes /\ Err(a, "conflict").code = "conflict" /\ Err(a, "conflict") # Given
    BY ReplyTypes DEF Codes, Definite
  <2>2. /\ row \in applied /\ run[row].request.who = run[a].request.who
        /\ run[row].request.key = run[a].request.key
        /\ Body(row) # Body(a) /\ before[a] \subseteq deleted
    BY <1>2, <1>6, RowSays
  <2>3. Contends(a, Err(a, "conflict")) BY <2>1, <2>2 DEF Contends
  <2>4. Fits(a, Err(a, "conflict")) BY <1>3, <2>1, <2>2, <2>3 DEF Fits, Carries, Spared
  <2> QED BY <1>1, <1>6, <2>1, <2>4, WaitsClose
<1>7. CASE Close(a, Err(a, "internal")) BY <1>1, <1>7, WaitsClose, AbortCodes
<1>8. CASE /\ row # "none" /\ SameFingerprint(row, a)
           /\ run' = [run EXCEPT ![a].at = "AtomicReplay", ![a].reply = Err(row, "committed"),
                                 ![a].failure = Err(a, "internal")]
  <2> DEFINE reply == Err(row, "committed")
             failure == Err(a, "internal")
             r == [run[a] EXCEPT !.at = "AtomicReplay", !.reply = reply, !.failure = failure]
  <2>1. row \in applied /\ row \in Attempts /\ SameRequest(a, row) BY <1>2, <1>8, RowSays
  <2>2. {"committed", "internal"} \subseteq Codes /\ "internal" \notin Definite
        /\ "committed" \notin Definite
    BY CodeTypes
  <2>3. /\ reply \in Replies /\ reply.code = "committed" /\ reply.of = row
        /\ failure \in Replies /\ failure.code = "internal" /\ reply # Given
    BY <2>1, <2>2, ReplyTypes
  <2>4. Fits(a, reply) BY <1>2, <2>1, <2>2, <2>3 DEF Fits, Carries, Contends
  <2>5. Fits(a, failure) /\ Fits(a, None) BY NoClaim, AbortCodes
  <2>6. run' = [run EXCEPT ![a] = r] BY <1>8
  <2> HIDE DEF reply, failure, row
  <2>7. r \in Runs /\ r.at = "AtomicReplay" BY <2>3, RunParts DEF Runs, Tasks
  <2>8. /\ r.reply = reply /\ r.failure = failure
        /\ r.request = run[a].request /\ r.place = run[a].place /\ r.late = run[a].late
    BY RunParts DEF Runs
  <2> HIDE DEF r
  <2>9. UNCHANGED <<answer, tx, rows, applied, stray, world, vetted>>
    BY <1>1 DEF Waits, database
  <2>10. run'[a] = r /\ run' \in [Attempts -> Runs] /\ \A b \in Attempts \ {a} : run'[b] = run[b]
    BY <2>6, <2>7, RunParts
  <2>11. Alone(a) BY <2>8, <2>9, <2>10 DEF Alone, TypeOK, world
  <2>12. "row" \in tx[a].did => Idempotent(a) BY <1>2
  <2>13. before' = before BY <2>9 DEF world
  <2>14. "AtomicReplay" \in Ending BY DEF Ending
  <2>15. History BY <2>11, AloneOK
  <2>16. AttemptOK(a)'
    BY <1>1, <1>2, <1>3, <2>2, <2>3, <2>4, <2>5, <2>7, <2>8, <2>9, <2>10, <2>12, <2>13,
       <2>14, <2>15, EndingOK
  <2> QED BY <2>9, <2>11, <2>16, AloneOK
<1> QED BY <1>4, <1>5, <1>6, <1>7, <1>8 DEF LookupReturned, UnlessExpired

\* A query failed.
LEMMA ExecuteFailedKeeps ==
    ASSUME TypeOK, AtomicInv, NEW a \in Attempts, ExecuteFailed(a)
    PROVE  TypeOK' /\ AtomicInv'
<1>1. /\ AttemptOK(a) /\ run[a].at \in {"AtomicLookup", "AtomicExecute", "AtomicInsert"}
      /\ run[a].at \in Started \ (Ending \cup {"AtomicCommit"})
      /\ UNCHANGED <<answer, rows, applied, world, vetted>>
  BY DEF AtomicInv, ExecuteFailed, Started, Tasks, Ending
<1>2. PICK class \in Classes \ {"not_committed"}, commits \in BOOLEAN, aborts \in BOOLEAN :
         /\ commits => /\ run[a].at = "AtomicExecute" /\ Body(a) \in Trailing
                       /\ class \notin {"complex", "rejected"}
         /\ UnlessExpired(a, Close(a, Err(a,
                ExecuteFailure(run[a].at, class, Body(a) \in Trailing))))
         /\ stray' = IF commits THEN stray \cup {a} ELSE stray
         /\ tx' = IF aborts THEN [tx EXCEPT ![a] = NoTx] ELSE tx
  BY DEF ExecuteFailed
<1> DEFINE failed == ExecuteFailure(run[a].at, class, Body(a) \in Trailing)
           code == IF Expired(a) THEN "unavailable" ELSE failed
<1>3. Close(a, Err(a, code)) BY <1>2 DEF UnlessExpired, ExpireAtomic
<1>4. ~MaySend(a) /\ a \notin stray BY <1>1, Unsent DEF Ending
<1>5. /\ failed \in {"database", "binding_rejected", "internal", "limit", "complex"}
      /\ failed \in {"limit", "complex"} =>
            run[a].at = "AtomicExecute" /\ (class = "complex" \/ Body(a) \notin Trailing)
  \* a rejection only of an envelope past its lookup, whose later writes cannot
  \* have committed by themselves
  BY <1>1 DEF ExecuteFailure, ForClass, Classes
<1> HIDE DEF failed
<1>6. Fits(a, Err(a, failed))
  <2>1. CASE failed \in {"limit", "complex"}
    <3>1. before[a] \subseteq deleted
      BY <1>1, <1>5, <2>1 DEF AttemptOK, LookedUp, PastLookup
    <3>2. failed \in Definite \ {"conflict"} BY <2>1 DEF Definite
    <3> QED BY <1>4, <3>1, <3>2, Rejection DEF Spared
  <2>2. CASE failed \in {"database", "binding_rejected", "internal"}
    BY <2>2, AbortCodes
  <2> QED BY <1>5, <2>1, <2>2
<1>7. Fits(a, Err(a, code))
  <2>1. CASE Expired(a) BY <1>1, <2>1, ExpiryFits DEF Started
  <2> QED BY <2>1, <1>6
<1>8. code \in Codes BY <1>5 DEF Codes, Definite
<1>9. commits => run[a].at = "AtomicExecute" /\ (run[a].late \/ code \notin Definite)
  <2>1. CASE Expired(a) BY <1>2, <2>1 DEF Expired
  <2>2. CASE ~Expired(a)
    <3>1. commits => code \in {"database", "binding_rejected", "internal"}
      BY <1>2, <1>5, <2>2
    <3> QED BY <1>2, <3>1, CodeTypes
  <2> QED BY <2>1, <2>2
<1> HIDE DEF code
<1>10. /\ tx' \in [Attempts -> Transactions] /\ tx'[a] \in {tx[a], NoTx}
       /\ \A b \in Attempts \ {a} : tx'[b] = tx[b]
  BY <1>2, TxParts DEF TypeOK
<1>11. "row" \in tx[a].did => Idempotent(a) BY <1>1 DEF AttemptOK, RowFirst
<1>12. Touched(a) BY <1>10, <1>11, TxParts DEF Touched
<1>13. /\ stray' \subseteq Attempts /\ \A b \in Attempts \ {a} : b \in stray' => b \in stray
       /\ a \in stray' => a \in stray \/ commits
  BY <1>2 DEF TypeOK
<1>14. Alone(a) /\ AttemptOK(a)'
  BY <1>1, <1>3, <1>7, <1>8, <1>9, <1>12, <1>13, CloseKeeps
<1>15. tx'[a].at # "none" => tx'[a] = tx[a] BY <1>10, TxParts
<1> QED BY <1>14, <1>15, AloneOK

\* The row or the commit comes next.
LEMMA InsertOrCommitTask ==
    ASSUME NEW a \in Attempts
    PROVE  LET task == IF Idempotent(a) THEN "AtomicInsert" ELSE "AtomicCommit"
           IN  /\ task \in Tasks \ (Ending \cup Unopened \cup {"done"})
               /\ task \in {"AtomicInsert", "AtomicCommit"}
               /\ task = "AtomicInsert" <=> Idempotent(a)
BY DEF Tasks, Ending, Unopened

\* The envelope returned.
LEMMA AtomicExecutedKeeps ==
    ASSUME TypeOK, AtomicInv, NEW a \in Attempts, AtomicExecuted(a)
    PROVE  TypeOK' /\ AtomicInv'
<1>1. /\ AttemptOK(a) /\ run[a].at = "AtomicExecute" /\ tx[a].at = "open"
      /\ run[a].at \in Started \ (Ending \cup {"AtomicCommit"})
      /\ tx' = [tx EXCEPT ![a].did = @ \cup {"envelope"}]
      /\ UNCHANGED <<answer, rows, applied, stray, world>>
  BY DEF AtomicInv, AtomicExecuted, Started, Tasks, Ending
<1>2. ~MaySend(a) /\ a \notin stray /\ before[a] \subseteq deleted
  BY <1>1, Unsent DEF Ending, AttemptOK, LookedUp, PastLookup
<1> DEFINE t == [tx[a] EXCEPT !.did = @ \cup {"envelope"}]
<1>3. /\ t \in Transactions /\ t.at = "open" /\ ("row" \in t.did <=> "row" \in tx[a].did)
  BY <1>1, TxParts DEF Transactions
<1>4. tx' = [tx EXCEPT ![a] = t] BY <1>1
<1> HIDE DEF t
<1>5. /\ tx' \in [Attempts -> Transactions] /\ tx'[a] = t
      /\ \A b \in Attempts \ {a} : tx'[b] = tx[b]
  BY <1>3, <1>4, TxParts
<1>6. "row" \in tx'[a].did => Idempotent(a) BY <1>1, <1>3, <1>5 DEF AttemptOK, RowFirst
<1>7. SUFFICES Alone(a) /\ AttemptOK(a)'
  <2>1. tx'[a].at # "none" => tx[a].at # "none" /\ ("row" \in tx'[a].did => "row" \in tx[a].did)
    BY <1>1, <1>3, <1>5
  <2> QED BY <1>7, <2>1, AloneOK
<1>8. ASSUME NEW code \in Codes, Fits(a, Err(a, code)), Close(a, Err(a, code)), UNCHANGED vetted
      PROVE  Alone(a) /\ AttemptOK(a)'
  <2>1. Touched(a) BY <1>1, <1>3, <1>5, <1>6 DEF Touched
  <2> QED BY <1>1, <1>8, <2>1, CloseKeeps DEF TypeOK
<1>9. ASSUME NEW code \in {"result_rejected", "limit", "timeout", "internal", "check_rejected"}
      PROVE  code \in Codes /\ Fits(a, Err(a, code))
  <2>1. CASE code \in {"timeout", "internal"} BY <2>1, AbortCodes
  <2>2. CASE code \in {"result_rejected", "limit", "check_rejected"}
    <3>1. code \in Definite \ {"conflict"} /\ code \in Codes BY <2>2 DEF Definite, Codes
    <3> QED BY <1>2, <3>1, Rejection DEF Spared
  <2> QED BY <2>1, <2>2
<1>10. CASE Expired(a) /\ ExpireAtomic(a) /\ UNCHANGED vetted
  <2>1. Fits(a, Err(a, "unavailable")) BY <1>1, <1>10, ExpiryFits DEF Started
  <2>2. "unavailable" \in Codes BY DEF Codes, Definite
  <2> QED BY <1>8, <1>10, <2>1, <2>2 DEF ExpireAtomic
<1>11. CASE /\ \E code \in {"result_rejected", "limit", "timeout", "internal"} :
                  Close(a, Err(a, code))
            /\ UNCHANGED vetted
  BY <1>8, <1>9, <1>11
<1>12. CASE ~Expired(a) /\ run[a].place = "direct" /\ InsertOrCommit(a) /\ UNCHANGED vetted
  <2> DEFINE task == IF Idempotent(a) THEN "AtomicInsert" ELSE "AtomicCommit"
  <2>1. Await(a, task) BY <1>12 DEF InsertOrCommit, UnlessExpired
  <2>2. /\ task \in Tasks \ (Ending \cup Unopened \cup {"done"})
        /\ task \in {"AtomicInsert", "AtomicCommit"}
        /\ task = "AtomicInsert" <=> Idempotent(a)
    BY InsertOrCommitTask
  <2> HIDE DEF task
  <2> QED BY <1>1, <1>2, <1>3, <1>5, <1>6, <1>12, <2>1, <2>2, AwaitKeeps DEF TypeOK
<1>13. CASE Await(a, "Validator") /\ UNCHANGED vetted
  <2>1. "Validator" \in Tasks \ (Ending \cup Unopened \cup {"done"})
    BY DEF Tasks, Ending, Unopened
  <2> QED BY <1>1, <1>2, <1>3, <1>5, <1>6, <1>13, <2>1, AwaitKeeps DEF TypeOK
<1>14. CASE Close(a, Err(a, "check_rejected")) /\ UNCHANGED vetted BY <1>8, <1>9, <1>14
<1>15. CASE Await(a, "AtomicCommitBinding") /\ vetted' = vetted \cup {a}
  <2>1. "AtomicCommitBinding" \in Tasks \ (Ending \cup Unopened \cup {"done"})
    BY DEF Tasks, Ending, Unopened
  <2>2. vetted' \subseteq Attempts /\ vetted \subseteq vetted' /\ a \in vetted'
    BY <1>15 DEF TypeOK
  <2> QED BY <1>1, <1>2, <1>3, <1>5, <1>6, <1>15, <2>1, <2>2, AwaitKeeps
<1> QED BY <1>10, <1>11, <1>12, <1>13, <1>14, <1>15 DEF AtomicExecuted, UnlessExpired

\* The validators answered.
LEMMA ValidatedKeeps ==
    ASSUME TypeOK, AtomicInv, NEW a \in Attempts, Validated(a)
    PROVE  TypeOK' /\ AtomicInv'
<1>1. /\ AttemptOK(a) /\ run[a].at = "Validator"
      /\ run[a].at \in Started \ (Ending \cup {"AtomicCommit"})
      /\ UNCHANGED <<answer, tx, rows, applied, stray, world>>
  BY DEF AtomicInv, Validated, Started, Tasks, Ending, database
<1>2. ~MaySend(a) /\ a \notin stray /\ before[a] \subseteq deleted /\ tx[a].at # "sent"
  BY <1>1, Unsent DEF Ending, AttemptOK, LookedUp, PastLookup
<1>3. "row" \in tx[a].did => Idempotent(a) BY <1>1 DEF AttemptOK, RowFirst
<1>4. CASE Await(a, "AtomicCommitBinding") /\ vetted' = vetted \cup {a}
  <2>1. "AtomicCommitBinding" \in Tasks \ (Ending \cup Unopened \cup {"done"})
    BY DEF Tasks, Ending, Unopened
  <2>2. vetted' \subseteq Attempts /\ vetted \subseteq vetted' /\ a \in vetted'
    BY <1>4 DEF TypeOK
  <2>3. Alone(a) /\ AttemptOK(a)'
    BY <1>1, <1>2, <1>3, <1>4, <2>1, <2>2, AwaitKeeps DEF TypeOK
  <2> QED BY <1>1, <2>3, AloneOK
<1>5. CASE Close(a, Err(a, "check_rejected")) /\ UNCHANGED vetted
  <2>1. "check_rejected" \in Definite \ {"conflict"} /\ "check_rejected" \in Codes
    BY DEF Definite, Codes
  <2>2. Fits(a, Err(a, "check_rejected")) BY <1>2, <2>1, Rejection DEF Spared
  <2> QED BY <1>1, <1>5, <2>1, <2>2, WaitsClose DEF Waits, database
<1> QED BY <1>4, <1>5 DEF Validated

\* The timer answers a validation and leaves its close to the background.
LEMMA AtomicTimerKeeps ==
    ASSUME TypeOK, AtomicInv, NEW a \in Attempts, AtomicTimer(a)
    PROVE  TypeOK' /\ AtomicInv'
<1>1. /\ AttemptOK(a) /\ run[a].at = "Validator" /\ run[a].late
      /\ run[a].at \in Started \ (Ending \cup {"AtomicCommit"})
      /\ UNCHANGED <<tx, rows, applied, stray, world, vetted>>
      /\ Tell(a, Err(a, "check_rejected"))
  BY DEF AtomicInv, AtomicTimer, Started, Tasks, Ending, database
<1>2. /\ ~MaySend(a) /\ a \notin stray /\ run[a].failure = None
  BY <1>1, Unsent DEF Ending
<1>3. "row" \in tx[a].did => Idempotent(a) BY <1>1 DEF AttemptOK, RowFirst
<1> DEFINE told == Err(a, "check_rejected")
           r == [run[a] EXCEPT !.at = "CloseRollback", !.reply = Given]
<1>4. "check_rejected" \in Definite \ {"conflict"} /\ "check_rejected" \in Codes
  BY DEF Definite, Codes
<1>5. told \in Replies /\ Fits(a, told) BY <1>1, <1>2, <1>4, Rejection, ReplyTypes
<1>6. Fits(a, Given) BY <1>1, <1>2 DEF Fits, Given, Definite, Carries, Contends
<1>7. Fits(a, None) /\ None.code \notin Definite BY DEF Fits, Given, None, Definite, Carries, Contends
<1>8. run' = [run EXCEPT ![a] = r] BY DEF AtomicTimer
<1>9. r \in Runs /\ r.at = "CloseRollback" BY RunParts DEF Runs, Tasks
<1>10. /\ r.reply = Given /\ r.failure = run[a].failure
       /\ r.request = run[a].request /\ r.place = run[a].place /\ r.late = run[a].late
  BY RunParts DEF Runs
<1>11. /\ answer' \in [Attempts -> Replies \cup {None}]
       /\ answer'[a] \in {answer[a], told}
       /\ \A b \in Attempts \ {a} : answer'[b] = answer[b]
  BY <1>1, <1>5, TellTells
<1> HIDE DEF r, told
<1>12. run'[a] = r /\ run' \in [Attempts -> Runs] /\ \A b \in Attempts \ {a} : run'[b] = run[b]
  BY <1>8, <1>9, RunParts
<1>13. Alone(a) BY <1>1, <1>10, <1>11, <1>12 DEF Alone, TypeOK, world
<1>14. History /\ before' = before BY <1>1, <1>13, AloneOK DEF world
<1>15. "CloseRollback" \in Ending BY DEF Ending
<1>16. AttemptOK(a)'
  BY <1>1, <1>2, <1>3, <1>5, <1>6, <1>7, <1>9, <1>10, <1>11, <1>12, <1>14, <1>15, EndingOK
<1> QED BY <1>1, <1>13, <1>16, AloneOK

\* The binding at the commit of an owner's execution.
LEMMA AtomicCommitBindingKeeps ==
    ASSUME TypeOK, AtomicInv, NEW a \in Attempts, AtomicCommitBinding(a)
    PROVE  TypeOK' /\ AtomicInv'
<1>1. /\ AttemptOK(a) /\ run[a].at = "AtomicCommitBinding" /\ Waits
      /\ run[a].at \in Started \ (Ending \cup {"AtomicCommit"})
  BY DEF AtomicInv, AtomicCommitBinding, Started, Tasks, Ending
<1>2. before[a] \subseteq deleted /\ (run[a].place = "owner" => a \in vetted)
  BY <1>1 DEF AttemptOK, LookedUp, PastLookup, ChecksFirst
<1>3. CASE \E code \in {"binding_rejected", "database", "internal"} : Close(a, Err(a, code))
  BY <1>1, <1>3, WaitsClose, AbortCodes
<1>4. CASE Expired(a) /\ ExpireAtomic(a) BY <1>1, <1>4, ExpireKeeps
<1>5. CASE Await(a, IF Idempotent(a) THEN "AtomicInsert" ELSE "AtomicCommit")
  <2> DEFINE task == IF Idempotent(a) THEN "AtomicInsert" ELSE "AtomicCommit"
  <2>1. /\ task \in Tasks \ (Ending \cup Unopened \cup {"done"})
        /\ task \in {"AtomicInsert", "AtomicCommit"}
        /\ task = "AtomicInsert" <=> Idempotent(a)
        /\ Await(a, task)
    BY <1>5, InsertOrCommitTask
  <2> HIDE DEF task
  <2> QED BY <1>1, <1>2, <2>1, WaitsAwait
<1> QED BY <1>3, <1>4, <1>5 DEF AtomicCommitBinding, InsertOrCommit, UnlessExpired

\* The row is in the transaction, and no other row of its key is in the table.
LEMMA AtomicInsertedKeeps ==
    ASSUME TypeOK, AtomicInv, NEW a \in Attempts, AtomicInserted(a)
    PROVE  TypeOK' /\ AtomicInv'
<1>1. /\ AttemptOK(a) /\ run[a].at = "AtomicInsert" /\ tx[a].at = "open"
      /\ rows[OwnerOf(a)] = "none"
      /\ run[a].at \in Started \ (Ending \cup {"AtomicCommit"})
      /\ tx' = [tx EXCEPT ![a].did = @ \cup {"row"}]
      /\ UNCHANGED <<answer, rows, applied, stray, world, vetted>>
  BY DEF AtomicInv, AtomicInserted, Started, Tasks, Ending
<1>2. Idempotent(a) /\ before[a] \subseteq deleted /\ (run[a].place = "owner" => a \in vetted)
  BY <1>1 DEF AttemptOK, RowFirst, LookedUp, PastLookup, ChecksFirst
<1> DEFINE t == [tx[a] EXCEPT !.did = @ \cup {"row"}]
<1>3. t \in Transactions /\ t.at = "open" /\ "row" \in t.did
  BY <1>1, TxParts DEF Transactions
<1>4. tx' = [tx EXCEPT ![a] = t] BY <1>1
<1> HIDE DEF t
<1>5. /\ tx' \in [Attempts -> Transactions] /\ tx'[a] = t
      /\ \A b \in Attempts \ {a} : tx'[b] = tx[b]
  BY <1>3, <1>4, TxParts
<1>6. Alone(a) /\ AttemptOK(a)'
  <2>1. CASE Expired(a) /\ ExpireAtomic(a)
    <3>1. Fits(a, Err(a, "unavailable")) BY <1>1, <2>1, ExpiryFits DEF Started
    <3>2. "unavailable" \in Codes BY DEF Codes, Definite
    <3>3. Touched(a) BY <1>1, <1>2, <1>3, <1>5 DEF Touched
    <3> QED BY <1>1, <2>1, <3>1, <3>2, <3>3, CloseKeeps DEF TypeOK, ExpireAtomic
  <2>2. CASE Await(a, "AtomicCommit")
    <3>1. "AtomicCommit" \in Tasks \ (Ending \cup Unopened \cup {"done"})
      BY DEF Tasks, Ending, Unopened
    <3> QED BY <1>1, <1>2, <1>3, <1>5, <2>2, <3>1, AwaitKeeps DEF TypeOK
  <2> QED BY <2>1, <2>2 DEF AtomicInserted, UnlessExpired
<1>7. History /\ TypeOK' /\ UNCHANGED <<rows, applied, aged, deleted>>
  BY <1>6, AloneOK DEF Alone
<1>8. RowsTrue'
  <2>1. \A k \in KeyHashes : rows[k] # "none" => rows[k] \in Attempts BY DEF TypeOK
  <2>2. \A c \in Attempts : KeyHash(run'[c].request) = KeyHash(run[c].request)
    BY <1>7 DEF History
  <2> QED BY <1>7, <2>1, <2>2, RequestsKept DEF AtomicInv, RowsTrue, TypeOK
<1>9. OneWriter'
  <2>1. Writer' = Writer BY <1>1, <1>3, <1>5, <1>7, RequestsKept DEF Writer
  <2>2. OwnerOf(a)' = OwnerOf(a) BY <1>7, RequestsKept
  <2>3. \A c \in Attempts \ {a} :
           tx'[c].at # "none" /\ "row" \in tx'[c].did => rows'[OwnerOf(c)'] = "none"
    BY <1>5, <1>7, RequestsKept DEF AtomicInv, OneWriter
  <2> QED BY <1>1, <1>7, <2>1, <2>2, <2>3 DEF AtomicInv, OneWriter
<1> QED BY <1>6, <1>7, <1>8, <1>9, AloneOK

\* COMMIT is sent: by the work that waits for it, after its row and its checks.
LEMMA SendCommitKeeps ==
    ASSUME TypeOK, AtomicInv, NEW a \in Attempts, SendCommit(a)
    PROVE  TypeOK' /\ AtomicInv'
<1>1. /\ AttemptOK(a) /\ run[a].at = "AtomicCommit" /\ tx[a].at = "open"
      /\ tx' = [tx EXCEPT ![a].at = "sent"]
      /\ UNCHANGED <<run, answer, rows, applied, stray, world, vetted>>
  BY DEF AtomicInv, SendCommit
<1> DEFINE t == [tx[a] EXCEPT !.at = "sent"]
<1>2. t \in Transactions /\ t.at = "sent" /\ t.did = tx[a].did
  BY TxParts DEF Transactions
<1>3. tx' = [tx EXCEPT ![a] = t] BY <1>1
<1> HIDE DEF t
<1>4. /\ tx' \in [Attempts -> Transactions] /\ tx'[a] = t
      /\ \A b \in Attempts \ {a} : tx'[b] = tx[b]
  BY <1>2, <1>3, TxParts
<1>5. Alone(a) BY <1>1, <1>4 DEF Alone, TypeOK, world
<1>6. History BY <1>5, AloneOK
<1>7. /\ Body(a)' = Body(a) /\ (Idempotent(a)' <=> Idempotent(a))
  BY <1>6, RequestsKept
<1>8. /\ run' = run /\ answer' = answer /\ stray' = stray /\ applied' = applied
      /\ before' = before /\ deleted' = deleted /\ vetted' = vetted
      /\ tx'[a].at = "sent" /\ tx'[a].did = tx[a].did
  BY <1>1, <1>2, <1>4 DEF world
<1>9. AttemptOK(a)'
  <2> USE <1>1, <1>8 DEF AttemptOK
  <2>1. run[a].reply = None /\ run[a].failure = None /\ answer[a].code \notin Definite
    BY DEF RepliesLast, Ending, RejectionExcludes
  <2>2. None # Given /\ None.code \notin Definite BY DEF None, Given, Definite
  <2>3. RepliesLast(a)' BY DEF RepliesLast
  <2>4. SentByCommit(a)' BY DEF SentByCommit, Unopened
  <2>5. RejectionExcludes(a)' BY <2>1, <2>2 DEF RejectionExcludes
  <2>6. RepliesTrue(a)' BY <1>6, ReplyKept DEF RepliesTrue
  <2>7. RowFirst(a)' BY <1>7 DEF RowFirst
  <2>8. ChecksFirst(a)' BY <1>7 DEF ChecksFirst
  <2>9. LookedUp(a)'
    <3>1. \A b \in before'[a] : (b \in applied /\ Idempotent(a) /\ SameRequest(a, b))'
      BY <1>6, <1>7, RequestsKept DEF LookedUp, TypeOK
    <3> QED BY <2>1, <2>2, <3>1 DEF LookedUp
  <2>10. DeadlineIsOwners(a)' BY DEF DeadlineIsOwners
  <2> QED BY <2>3, <2>4, <2>5, <2>6, <2>7, <2>8, <2>9, <2>10
<1> QED BY <1>1, <1>5, <1>8, <1>9, AloneOK

\* The COMMIT is known to be applied.
LEMMA CommittedKeeps ==
    ASSUME TypeOK, AtomicInv, NEW a \in Attempts, Committed(a)
    PROVE  TypeOK' /\ AtomicInv'
<1> DEFINE reply == Err(a, "committed")
<1>1. /\ AttemptOK(a) /\ run[a].at = "AtomicCommit" /\ a \in applied
      /\ run[a].at \in Started
      /\ UNCHANGED <<tx, rows, applied, stray, world, vetted>>
  BY DEF AtomicInv, Committed, Started, Tasks, database
<1>2. {"committed"} \subseteq Codes /\ "committed" \notin Definite BY CodeTypes
<1>3. /\ reply \in Replies /\ reply.code = "committed" /\ reply.of = a /\ reply # Given
  BY <1>2, ReplyTypes
<1>4. Fits(a, reply) BY <1>1, <1>2, <1>3 DEF Fits, Carries, Contends
<1>5. answer[a].code \notin Definite
  BY <1>1 DEF AttemptOK, RejectionExcludes, Ending
<1>6. /\ UNCHANGED <<worker, host, aged, sweep, deploys, losses, deleted, before>>
      /\ losses' \in 0..MaxLosses
  BY <1>1 DEF world, TypeOK
<1>7. CASE Ends(a) /\ Tell(a, reply)
  <2> HIDE DEF reply
  <2>1. Alone(a) /\ AttemptOK(a)' BY <1>1, <1>3, <1>4, <1>6, <1>7, EndKeeps DEF TypeOK
  <2> QED BY <1>1, <2>1, AloneOK
<1>8. CASE /\ run' = [run EXCEPT ![a].at = "Reply", ![a].reply = Err(a, "committed"),
                                 ![a].failure = Err(a, "committed")]
           /\ UNCHANGED answer
  <2> DEFINE r == [run[a] EXCEPT !.at = "Reply", !.reply = reply, !.failure = reply]
  <2>1. run' = [run EXCEPT ![a] = r] BY <1>8
  <2> HIDE DEF reply
  <2>2. r \in Runs /\ r.at = "Reply" BY <1>3, RunParts DEF Runs, Tasks
  <2>3. /\ r.reply = reply /\ r.failure = reply
        /\ r.request = run[a].request /\ r.place = run[a].place /\ r.late = run[a].late
    BY RunParts DEF Runs
  <2> HIDE DEF r
  <2>4. run'[a] = r /\ run' \in [Attempts -> Runs] /\ \A b \in Attempts \ {a} : run'[b] = run[b]
    BY <2>1, <2>2, RunParts
  <2>5. Alone(a) BY <1>1, <1>6, <1>8, <2>3, <2>4 DEF Alone, TypeOK
  <2>6. History BY <2>5, AloneOK
  <2>7. "row" \in tx[a].did => Idempotent(a) BY <1>1 DEF AttemptOK, RowFirst
  <2>8. "Reply" \in Ending BY DEF Ending
  <2>9. AttemptOK(a)'
    <3>1. answer' = answer /\ tx' = tx /\ stray' = stray /\ applied' = applied BY <1>1, <1>8
    <3> QED BY <1>1, <1>2, <1>3, <1>4, <1>5, <1>6, <2>2, <2>3, <2>4, <2>6, <2>7, <2>8, <3>1,
               EndingOK
  <2> QED BY <1>1, <2>5, <2>9, AloneOK
<1> QED BY <1>7, <1>8 DEF Committed

\* The COMMIT failed: a rejection only if it was not sent.
LEMMA CommitFailedKeeps ==
    ASSUME TypeOK, AtomicInv, NEW a \in Attempts, CommitFailed(a)
    PROVE  TypeOK' /\ AtomicInv'
<1>1. /\ AttemptOK(a) /\ run[a].at = "AtomicCommit" /\ Waits
      /\ run[a].at \in Started \ Ending
  BY DEF AtomicInv, CommitFailed, Started, Tasks, Ending
<1>2. PICK class \in {"not_committed", "unreachable", "unknown"} :
         /\ class = "not_committed" => (tx[a].at # "sent" /\ a \notin applied)
         /\ Close(a, Err(a, CommitFailure(class)))
  BY DEF CommitFailed
<1>3. Spared(a) BY <1>1 DEF AttemptOK, LookedUp, PastLookup, Spared
<1>4. CASE class = "not_committed"
  <2>1. CommitFailure(class) = "unavailable" BY <1>4 DEF CommitFailure
  <2>2. "unavailable" \in Codes /\ "unavailable" \in Definite \ {"conflict"} BY DEF Codes, Definite
  <2>3. Fits(a, Err(a, "unavailable")) BY <1>2, <1>3, <1>4, <2>2, Rejection DEF MaySend
  <2> QED BY <1>1, <1>2, <2>1, <2>2, <2>3, WaitsClose
<1>5. CASE class # "not_committed"
  <2>1. CommitFailure(class) \in {"database", "internal"} BY <1>5 DEF CommitFailure
  <2> QED BY <1>1, <1>2, <2>1, WaitsClose, AbortCodes
<1> QED BY <1>4, <1>5

\* The rollback of a close or a replay, taken or not, and what follows it.
LEMMA RollbackKeeps ==
    ASSUME TypeOK, AtomicInv, NEW a \in Attempts, RolledBack(a) \/ RollbackFailed(a)
    PROVE  TypeOK' /\ AtomicInv'
<1>1. /\ AttemptOK(a) /\ run[a].at \in {"CloseRollback", "AtomicReplay"}
      /\ run[a].at \in Started
      /\ UNCHANGED <<rows, applied, stray, world, vetted>>
      /\ tx' = tx \/ tx' = [tx EXCEPT ![a] = NoTx]
      /\ IF run[a].place = "direct"
         THEN Ends(a) /\ Tell(a, run[a].reply)
         ELSE Await(a, "Reply") /\ UNCHANGED answer
  BY DEF AtomicInv, RolledBack, RollbackFailed, Started, Tasks, database
<1>2. /\ tx' \in [Attempts -> Transactions] /\ tx'[a] \in {tx[a], NoTx}
      /\ \A b \in Attempts \ {a} : tx'[b] = tx[b]
  BY <1>1, TxParts DEF TypeOK
<1>3. Fits(a, run[a].reply) /\ Fits(a, run[a].failure) /\ run[a].failure.code \notin Definite
  BY <1>1, Decided DEF AttemptOK, RepliesLast
<1>4. /\ UNCHANGED <<worker, host, aged, sweep, deploys, losses, deleted, before>>
      /\ losses' \in 0..MaxLosses
  BY <1>1 DEF world, TypeOK
<1>5. tx'[a].at # "none" => tx'[a] = tx[a] BY <1>2, TxParts
<1>6. Body(a) \in Guarded => run[a].place = "owner" BY <1>1 DEF AttemptOK, ChecksFirst
<1>7. SUFFICES Alone(a) /\ AttemptOK(a)' BY <1>5, <1>7, AloneOK
<1>8. CASE run[a].place = "direct"
  <2>1. run[a].reply \in Replies \cup {None}
    BY <1>1, <1>8, RunParts DEF AttemptOK, DeadlineIsOwners
  <2> QED BY <1>1, <1>2, <1>3, <1>4, <1>6, <1>8, <2>1, EndKeeps
<1>9. CASE run[a].place # "direct"
  <2>1. Moved(a, "Reply", run[a].reply, run[a].failure)
    BY <1>1, <1>9, AwaitMoves DEF Tasks
  <2>2. Alone(a) BY <1>1, <1>2, <1>4, <1>9, <2>1 DEF Alone, Moved, TypeOK
  <2>3. History BY <2>2, AloneOK
  <2>4. "row" \in tx'[a].did => Idempotent(a) BY <1>1, <1>2, TxParts DEF AttemptOK, RowFirst
  <2>5. "Reply" \in Ending BY DEF Ending
  <2>6. answer[a].code \in Definite => run[a].reply = Given
    BY <1>1 DEF AttemptOK, RejectionExcludes
  <2>7. Fits(a, None) BY NoClaim, CodeTypes
  <2>8. tx'[a].at \in {tx[a].at, "none"} /\ (tx'[a].at = "sent" => tx'[a] = tx[a])
    BY <1>2, TxParts
  <2>9. AttemptOK(a)'
    BY <1>1, <1>3, <1>4, <1>9, <2>1, <2>3, <2>4, <2>5, <2>6, <2>7, <2>8, EndingOK DEF Moved
  <2> QED BY <2>2, <2>9
<1> QED BY <1>8, <1>9

\* The owner's caller is answered.
LEMMA ReplyKeeps ==
    ASSUME TypeOK, AtomicInv, NEW a \in Attempts, Reply(a)
    PROVE  TypeOK' /\ AtomicInv'
<1>1. /\ AttemptOK(a) /\ run[a].at = "Reply" /\ Ends(a)
      /\ UNCHANGED <<tx, rows, applied, stray, world, vetted>>
  BY DEF AtomicInv, Reply, database
<1>2. Fits(a, run[a].reply) /\ Fits(a, run[a].failure) /\ Fits(a, None)
  BY <1>1, Decided, NoClaim, CodeTypes
<1>3. /\ UNCHANGED <<worker, host, aged, sweep, deploys, losses, deleted, before>>
      /\ losses' \in 0..MaxLosses
  BY <1>1 DEF world, TypeOK
<1>4. Alone(a) /\ AttemptOK(a)'
  <2>1. CASE UNCHANGED answer BY <1>1, <1>2, <1>3, <2>1, EndKeeps DEF TypeOK
  <2>2. ASSUME NEW reply \in {run[a].reply, run[a].failure}, run[a].reply # Given,
               Tell(a, reply)
        PROVE  Alone(a) /\ AttemptOK(a)'
    <3>1. reply \in Replies \cup {None} /\ Fits(a, reply) BY <1>2, <2>2, RunParts
    <3> QED BY <1>1, <1>3, <2>2, <3>1, EndKeeps DEF TypeOK
  <2> QED BY <2>1, <2>2 DEF Reply
<1> QED BY <1>1, <1>4, AloneOK

\* Every step of an execution keeps the invariant.
LEMMA AdvanceKeeps ==
    ASSUME TypeOK, AtomicInv, NEW a \in Attempts, Advance(a)
    PROVE  TypeOK' /\ AtomicInv'
BY RequestBindingKeeps, AtomicInputKeeps, AtomicBindingKeeps, AtomicOpenKeeps,
   AtomicPersistKeeps, LookupReturnedKeeps, ExecuteFailedKeeps, AtomicExecutedKeeps,
   ValidatedKeeps, AtomicTimerKeeps, AtomicCommitBindingKeeps, AtomicInsertedKeeps,
   SendCommitKeeps, CommittedKeeps, CommitFailedKeeps, RollbackKeeps, ReplyKeeps
   DEF Advance

(***************************************************************************)
(* The world's steps                                                       *)
(***************************************************************************)
\* A step that leaves every execution and every request alone.
LEMMA AllLeft ==
    ASSUME TypeOK, AtomicInv, History, \A a \in Attempts : Left(a)
    PROVE  \A a \in Attempts : AttemptOK(a)'
BY LeftOK DEF AtomicInv

\* The database applies a COMMIT.  The row it writes is the first of its key:
\* its writer was alone from its lookup on.
LEMMA DbAppliesKeeps ==
    ASSUME TypeOK, AtomicInv, NEW a \in Attempts, DbApplies(a)
    PROVE  TypeOK' /\ AtomicInv'
<1>1. /\ AttemptOK(a) /\ tx[a].at = "sent" /\ tx' = [tx EXCEPT ![a] = NoTx]
      /\ applied' = applied \cup {a}
      /\ rows' = IF "row" \in tx[a].did THEN [rows EXCEPT ![OwnerOf(a)] = a] ELSE rows
      /\ UNCHANGED <<run, answer, stray, vetted>>
      /\ UNCHANGED <<worker, host, aged, sweep, deploys, losses, deleted, before>>
  BY DEF AtomicInv, DbApplies, world
<1>2. /\ tx' \in [Attempts -> Transactions] /\ tx'[a] = NoTx
      /\ \A b \in Attempts \ {a} : tx'[b] = tx[b]
  BY <1>1, TxParts
<1>3. "row" \in tx[a].did =>
         /\ Idempotent(a) /\ OwnerOf(a) = KeyHash(run[a].request) /\ OwnerOf(a) \in KeyHashes
         /\ rows[OwnerOf(a)] = "none"
  <2>1. "row" \in tx[a].did => Idempotent(a) BY <1>1 DEF AttemptOK, RowFirst
  <2>2. run[a].request \in Requests BY RunParts
  <2>3. Idempotent(a) => OwnerOf(a) = KeyHash(run[a].request) /\ OwnerOf(a) \in KeyHashes
    BY <2>2, RequestParts DEF OwnerOf, Idempotent
  <2> QED BY <1>1, <2>1, <2>3 DEF AtomicInv, OneWriter
<1>4. /\ rows' \in [KeyHashes -> Attempts \cup {"none"}]
      /\ "row" \in tx[a].did => /\ rows'[OwnerOf(a)] = a
                                /\ \A k \in KeyHashes \ {OwnerOf(a)} : rows'[k] = rows[k]
      /\ "row" \notin tx[a].did => rows' = rows
  BY <1>1, <1>3 DEF TypeOK
<1>5. TypeOK' BY <1>1, <1>2, <1>4 DEF TypeOK
<1>6. History BY <1>1 DEF History, TypeOK
<1>7. \A b \in Attempts : Left(b) BY <1>1, <1>2 DEF Left, MaySend
<1>8. \A b \in Attempts : AttemptOK(b)' BY <1>6, <1>7, AllLeft
<1>9. "none" \notin Attempts BY RequestsAssumption
<1>10. RowsTrue'
  <2>1. \A c \in Attempts : (Idempotent(c)' <=> Idempotent(c)) BY <1>6, RequestsKept
  <2>2. ASSUME NEW k \in KeyHashes, rows'[k] # "none"
        PROVE  /\ rows'[k] \in applied' /\ Idempotent(rows'[k])
               /\ KeyHash(run[rows'[k]].request) = k
    <3>1. CASE rows'[k] = rows[k] BY <1>1, <2>2, <3>1 DEF AtomicInv, RowsTrue
    <3>2. CASE rows'[k] # rows[k] BY <1>1, <1>3, <1>4, <3>2
    <3> QED BY <3>1, <3>2
  <2>3. ASSUME NEW c \in applied' \ deleted, Idempotent(c)
        PROVE  rows'[KeyHash(run[c].request)] = c
    <3>1. CASE c = a
      <4>1. "row" \in tx[a].did BY <1>1, <2>3, <3>1 DEF AttemptOK, RowFirst
      <4> QED BY <1>3, <1>4, <3>1, <4>1
    <3>2. CASE c # a
      <4>1. c \in applied \ deleted /\ c \in Attempts BY <1>1, <2>3, <3>2 DEF TypeOK
      <4>2. rows[KeyHash(run[c].request)] = c BY <2>3, <4>1 DEF AtomicInv, RowsTrue
      <4>3. KeyHash(run[c].request) \in KeyHashes
        BY <2>3, <4>1, RunParts, RequestParts DEF Idempotent
      <4> QED BY <1>3, <1>4, <1>9, <4>1, <4>2, <4>3
    <3> QED BY <3>1, <3>2
  <2>4. \A k \in aged : rows'[k] # "none"
    BY <1>3, <1>4, <1>9 DEF AtomicInv, RowsTrue, TypeOK
  <2>5. applied' \subseteq Attempts BY <1>5 DEF TypeOK
  <2>6. run' = run /\ deleted' = deleted /\ aged' = aged BY <1>1
  <2>7. \A k \in KeyHashes : rows'[k] # "none" => rows'[k] \in Attempts BY <1>4
  <2> QED BY <2>1, <2>2, <2>3, <2>4, <2>5, <2>6, <2>7 DEF RowsTrue
<1>11. OneWriter'
  <2>1. Writer' \subseteq Writer \ {a}
    BY <1>1, <1>2, <1>6, RequestsKept, TxParts DEF Writer
  <2>2. ASSUME NEW c \in Attempts, tx'[c].at # "none", "row" \in tx'[c].did
        PROVE  rows'[OwnerOf(c)] = "none"
    <3>1. c # a BY <1>2, <2>2, TxParts
    <3>2. tx[c].at # "none" /\ "row" \in tx[c].did BY <1>2, <2>2, <3>1
    <3>3. Idempotent(c) BY <3>2 DEF AtomicInv, AttemptOK, RowFirst
    <3>4. c \in Writer BY <3>2, <3>3 DEF Writer, Idempotent
    <3>5. "row" \notin tx[a].did
      <4>1. "row" \in tx[a].did => a \in Writer BY <1>1, <1>3 DEF Writer, Idempotent
      <4> QED BY <3>1, <3>4, <4>1 DEF AtomicInv, OneWriter
    <3> QED BY <1>4, <3>2, <3>5 DEF AtomicInv, OneWriter
  <2> QED BY <1>6, <2>1, <2>2, RequestsKept DEF AtomicInv, OneWriter
<1> QED BY <1>5, <1>8, <1>10, <1>11 DEF AtomicInv

\* The database gives a transaction up.
LEMMA DbAbortsKeeps ==
    ASSUME TypeOK, AtomicInv, NEW a \in Attempts, DbAborts(a)
    PROVE  TypeOK' /\ AtomicInv'
<1>1. /\ tx' = [tx EXCEPT ![a] = NoTx]
      /\ UNCHANGED <<run, answer, rows, applied, stray, vetted>>
      /\ UNCHANGED <<worker, host, aged, sweep, deploys, losses, deleted, before>>
  BY DEF DbAborts, world
<1>2. /\ tx' \in [Attempts -> Transactions] /\ tx'[a] = NoTx
      /\ \A b \in Attempts \ {a} : tx'[b] = tx[b]
  BY <1>1, TxParts
<1>3. Alone(a) BY <1>1, <1>2 DEF Alone, TypeOK
<1>4. Left(a) BY <1>1, <1>2 DEF Left, MaySend
<1>5. AttemptOK(a)' BY <1>3, <1>4, AloneOK, LeftOK DEF AtomicInv
<1> QED BY <1>2, <1>3, <1>5, AloneOK, TxParts

\* An owner's deadline passes.
LEMMA DeadlinePassesKeeps ==
    ASSUME TypeOK, AtomicInv, NEW a \in Attempts, DeadlinePasses(a)
    PROVE  TypeOK' /\ AtomicInv'
<1>1. /\ run' = [run EXCEPT ![a].late = TRUE] /\ run[a].place = "owner" /\ run[a].at \in Started
      /\ UNCHANGED <<answer, tx, rows, applied, stray, vetted>>
      /\ UNCHANGED <<worker, host, aged, sweep, deploys, losses, deleted, before>>
  BY DEF DeadlinePasses, Waits, database, world
<1> DEFINE r == [run[a] EXCEPT !.late = TRUE]
<1>2. r \in Runs /\ r.late = TRUE BY RunParts DEF Runs
<1>3. /\ r.at = run[a].at /\ r.reply = run[a].reply /\ r.failure = run[a].failure
      /\ r.request = run[a].request /\ r.place = run[a].place
  BY RunParts DEF Runs
<1>4. run' = [run EXCEPT ![a] = r] BY <1>1
<1> HIDE DEF r
<1>5. run'[a] = r /\ run' \in [Attempts -> Runs] /\ \A b \in Attempts \ {a} : run'[b] = run[b]
  BY <1>2, <1>4, RunParts
<1>6. Alone(a) BY <1>1, <1>3, <1>5 DEF Alone, TypeOK
<1>7. Left(a) BY <1>1, <1>2, <1>3, <1>5 DEF Left, MaySend
<1>8. AttemptOK(a)' BY <1>6, <1>7, AloneOK, LeftOK DEF AtomicInv
<1> QED BY <1>1, <1>6, <1>8, AloneOK

\* The engine is lost.
LEMMA EngineLostKeeps ==
    ASSUME TypeOK, AtomicInv, NEW a \in Attempts, EngineLost(a)
    PROVE  TypeOK' /\ AtomicInv'
<1>1. /\ Ends(a) /\ Tell(a, Err(a, "internal"))
      /\ UNCHANGED <<tx, rows, applied, stray, worker, host, aged, sweep, deploys, deleted,
                     before, vetted>>
      /\ losses < MaxLosses /\ losses' = losses + 1
  BY DEF EngineLost, database
<1>2. losses' \in 0..MaxLosses BY <1>1, RequestsAssumption DEF TypeOK
<1>3. Err(a, "internal") \in Replies /\ Fits(a, Err(a, "internal"))
  BY AbortCodes, ReplyTypes
<1>4. Alone(a) /\ AttemptOK(a)' BY <1>1, <1>2, <1>3, EndKeeps DEF TypeOK
<1> QED BY <1>1, <1>4, AloneOK

\* An owner is lost with its executions.
LEMMA OwnerLostKeeps ==
    ASSUME TypeOK, AtomicInv, NEW o \in Owners, OwnerLost(o)
    PROVE  TypeOK' /\ AtomicInv'
<1> DEFINE Dies(a) == OwnerOf(a) = o /\ run[a].place = "owner" /\ run[a].at # "AtomicForward"
<1>1. /\ run' = [a \in Attempts |-> IF Dies(a) THEN Ended(run[a]) ELSE run[a]]
      /\ UNCHANGED <<answer, tx, rows, applied, stray, worker, aged, sweep, deploys, deleted,
                     before, vetted>>
      /\ losses < MaxLosses /\ losses' = losses + 1
      /\ \E v \in Versions : host' = [host EXCEPT ![o] = v]
  BY DEF OwnerLost, database
<1> HIDE DEF Dies
<1>2. ASSUME NEW a \in Attempts
      PROVE  /\ Ended(run[a]) \in Runs /\ Ended(run[a]).at = "done"
             /\ Ended(run[a]).reply = None /\ Ended(run[a]).failure = None
             /\ Ended(run[a]).request = run[a].request
             /\ Ended(run[a]).place = run[a].place /\ Ended(run[a]).late = run[a].late
  <2>1. Ended(run[a]) \in Runs BY RunParts DEF Runs, Tasks, Ended
  <2> QED BY <2>1, RunParts DEF Runs, Ended
<1>3. losses' \in 0..MaxLosses BY <1>1, RequestsAssumption DEF TypeOK
<1>4. run' \in [Attempts -> Runs]
  <2>1. \A a \in Attempts : run[a] \in Runs BY RunParts
  <2> QED BY <1>1, <1>2, <2>1
<1>5. host' \in [Owners -> Versions] BY <1>1 DEF TypeOK
<1>6. TypeOK' BY <1>1, <1>3, <1>4, <1>5 DEF TypeOK
<1>7. \A a \in Attempts : run'[a] = IF Dies(a) THEN Ended(run[a]) ELSE run[a] BY <1>1
<1>8. History BY <1>1, <1>2, <1>7 DEF History, TypeOK
<1>9. ASSUME NEW a \in Attempts PROVE AttemptOK(a)'
  <2>1. AttemptOK(a) BY DEF AtomicInv
  <2>2. CASE Dies(a)
    <3>1. Fits(a, None) BY NoClaim, CodeTypes
    <3> QED BY <1>1, <1>2, <1>7, <1>8, <2>1, <2>2, <3>1, EndedOK
  <2>3. CASE ~Dies(a)
    <3>1. Left(a) BY <1>1, <1>7, <2>3 DEF Left, MaySend
    <3> QED BY <1>8, <2>1, <3>1, LeftOK
  <2> QED BY <2>2, <2>3
<1> QED BY <1>1, <1>6, <1>8, <1>9, DatabaseKept DEF AtomicInv

\* A row grows old, a deployment, a cleanup that fails: no execution moves.
LEMMA QuietKeeps ==
    ASSUME TypeOK, AtomicInv, (\E k \in KeyHashes : RowAges(k)) \/ Deploy \/ CleanupFails
    PROVE  TypeOK' /\ AtomicInv'
<1>1. /\ UNCHANGED <<run, answer, tx, rows, applied, stray, host, deleted, before, vetted, losses>>
      /\ aged' \subseteq KeyHashes /\ \A k \in aged' : rows[k] # "none"
  BY DEF RowAges, Deploy, CleanupFails, database, TypeOK, AtomicInv, RowsTrue
<1>2. worker' \in Versions /\ deploys' \in 0..MaxDeploys /\ sweep' \in 0..MaxBatches - 1
  BY RequestsAssumption DEF RowAges, Deploy, CleanupFails, TypeOK
<1>3. TypeOK' BY <1>1, <1>2 DEF TypeOK
<1>4. History BY <1>1 DEF History, TypeOK
<1>5. \A a \in Attempts : Left(a) BY <1>1 DEF Left, MaySend
<1>6. RowsTrue'
  <2>1. \A k \in KeyHashes : rows[k] # "none" => rows[k] \in Attempts BY DEF TypeOK
  <2>2. \A c \in Attempts : KeyHash(run'[c].request) = KeyHash(run[c].request)
    BY <1>1
  <2> QED BY <1>1, <1>4, <2>1, <2>2, RequestsKept DEF AtomicInv, RowsTrue, TypeOK
<1>7. OneWriter'
  <2>1. Writer' = Writer BY <1>1, <1>4, RequestsKept DEF Writer
  <2> QED BY <1>1, <1>4, <2>1, RequestsKept DEF AtomicInv, OneWriter
<1> QED BY <1>3, <1>4, <1>5, <1>6, <1>7, AllLeft DEF AtomicInv

\* One batch of the cleanup: the rows it deletes are of committed attempts, and
\* no writer has looked at one of them.
LEMMA CleanupBatchKeeps ==
    ASSUME TypeOK, AtomicInv, CleanupBatch
    PROVE  TypeOK' /\ AtomicInv'
<1>1. /\ Writer = {}
      /\ UNCHANGED <<run, answer, worker, host, tx, deploys, losses, applied, stray,
                     before, vetted>>
  BY DEF CleanupBatch
<1>2. PICK batch \in SUBSET aged :
         /\ rows' = [k \in KeyHashes |-> IF k \in batch THEN "none" ELSE rows[k]]
         /\ deleted' = deleted \cup {rows[k] : k \in batch}
         /\ aged' = aged \ batch
         /\ sweep' = NextBatch(Cardinality(batch) = BatchSize)
  BY DEF CleanupBatch
<1>3. \A k \in batch : k \in KeyHashes /\ rows[k] \in Attempts
  BY <1>2 DEF AtomicInv, RowsTrue, TypeOK
<1>4. sweep' \in 0..MaxBatches - 1
  BY <1>2, RequestsAssumption DEF NextBatch, TypeOK
<1>5. rows' \in [KeyHashes -> Attempts \cup {"none"}] /\ aged' \subseteq KeyHashes
      /\ deleted' \subseteq Attempts
  BY <1>2, <1>3 DEF TypeOK
<1>6. TypeOK' BY <1>1, <1>4, <1>5 DEF TypeOK
<1>7. History BY <1>1, <1>2 DEF History, TypeOK
<1>8. \A a \in Attempts : Left(a) BY <1>1 DEF Left, MaySend
<1>9. \A k \in KeyHashes : rows'[k] = IF k \in batch THEN "none" ELSE rows[k] BY <1>2
<1>10. RowsTrue'
  <2>1. \A c \in Attempts : (Idempotent(c)' <=> Idempotent(c)) BY <1>7, RequestsKept
  <2>2. ASSUME NEW k \in KeyHashes, rows'[k] # "none"
        PROVE  /\ rows'[k] \in applied /\ Idempotent(rows'[k])
               /\ KeyHash(run[rows'[k]].request) = k
    <3>1. rows'[k] = rows[k] BY <1>9, <2>2
    <3> QED BY <2>2, <3>1 DEF AtomicInv, RowsTrue
  <2>3. ASSUME NEW c \in applied \ deleted', Idempotent(c)
        PROVE  rows'[KeyHash(run[c].request)] = c
    <3>1. c \in applied \ deleted /\ c \in Attempts BY <1>2 DEF TypeOK
    <3>2. rows[KeyHash(run[c].request)] = c BY <2>3, <3>1 DEF AtomicInv, RowsTrue
    <3>3. KeyHash(run[c].request) \in KeyHashes
      BY <2>3, <3>1, RunParts, RequestParts DEF Idempotent
    <3>4. KeyHash(run[c].request) \notin batch BY <1>2, <2>3, <3>2
    <3> QED BY <1>9, <3>2, <3>3, <3>4
  <2>4. \A k \in aged' : rows'[k] # "none"
    BY <1>2, <1>9 DEF AtomicInv, RowsTrue, TypeOK
  <2>5. \A k \in KeyHashes : rows'[k] # "none" => rows'[k] \in Attempts BY <1>5
  <2>6. applied \subseteq Attempts BY DEF TypeOK
  <2> QED BY <1>1, <2>1, <2>2, <2>3, <2>4, <2>5, <2>6 DEF RowsTrue
<1>11. OneWriter'
  <2>1. Writer' = {} BY <1>1, <1>7, RequestsKept DEF Writer
  <2>2. ASSUME NEW c \in Attempts, tx[c].at # "none", "row" \in tx[c].did
        PROVE  FALSE
    <3>1. Idempotent(c) BY <2>2 DEF AtomicInv, AttemptOK, RowFirst
    <3> QED BY <1>1, <2>2, <3>1 DEF Writer, Idempotent
  <2> QED BY <1>1, <2>1, <2>2 DEF OneWriter
<1> QED BY <1>6, <1>7, <1>8, <1>10, <1>11, AllLeft DEF AtomicInv

(***************************************************************************)
(* The theorems                                                            *)
(***************************************************************************)
\* No step disturbs the invariant.
LEMMA NextKeeps ==
    ASSUME TypeOK, AtomicInv, [Next]_vars
    PROVE  TypeOK' /\ AtomicInv'
<1>1. CASE UNCHANGED vars
  <2>1. /\ UNCHANGED <<run, answer, worker, host, tx, rows, aged, sweep, deploys, losses>>
        /\ UNCHANGED <<applied, stray, deleted, before, vetted>>
    BY <1>1 DEF vars
  <2>2. TypeOK' BY <2>1 DEF TypeOK
  <2>3. History BY <2>1 DEF History, TypeOK
  <2>4. \A a \in Attempts : Left(a) BY <2>1 DEF Left, MaySend
  <2> QED BY <2>1, <2>2, <2>3, <2>4, AllLeft, DatabaseKept DEF AtomicInv
<1>2. CASE \E a \in Attempts : Request(a) \/ Advance(a) \/ ForwardFailed(a)
  BY <1>2, RequestKeeps, AdvanceKeeps, ForwardFailedKeeps
<1>3. CASE \E a \in Attempts :
              DbApplies(a) \/ DbAborts(a) \/ DeadlinePasses(a) \/ EngineLost(a)
  BY <1>3, DbAppliesKeeps, DbAbortsKeeps, DeadlinePassesKeeps, EngineLostKeeps
<1>4. CASE \E o \in Owners : OwnerLost(o) BY <1>4, OwnerLostKeeps
<1>5. CASE (\E k \in KeyHashes : RowAges(k)) \/ Deploy \/ CleanupFails BY <1>5, QuietKeeps
<1>6. CASE CleanupBatch BY <1>6, CleanupBatchKeeps
<1> QED BY <1>1, <1>2, <1>3, <1>4, <1>5, <1>6 DEF Next

\* The invariant holds before the first request.
LEMMA InitKeeps ==
    ASSUME Init PROVE TypeOK /\ AtomicInv
<1> DEFINE fresh(r) == [request |-> r, at |-> "new", place |-> "none", snap |-> worker,
                        late |-> FALSE, reply |-> None, failure |-> None]
<1>1. /\ run \in [Attempts -> {fresh(r) : r \in Requests}] /\ worker \in Versions
      /\ answer = [a \in Attempts |-> None] /\ host = [o \in Owners |-> worker]
      /\ tx = [a \in Attempts |-> NoTx] /\ rows = [k \in KeyHashes |-> "none"]
      /\ aged = {} /\ sweep = 0 /\ deploys = 0 /\ losses = 0
      /\ applied = {} /\ stray = {} /\ deleted = {} /\ vetted = {}
      /\ before = [a \in Attempts |-> {}]
  BY DEF Init
<1>2. ASSUME NEW r \in Requests PROVE fresh(r) \in Runs
  BY <1>1, <1>2 DEF Runs, Tasks
<1>3. run \in [Attempts -> Runs] BY <1>1, <1>2
<1>4. \A a \in Attempts : /\ run[a].at = "new" /\ run[a].reply = None /\ run[a].failure = None
                          /\ run[a].late = FALSE /\ answer[a] = None
                          /\ tx[a].at = "none" /\ tx[a].did = {} /\ before[a] = {}
  BY <1>1 DEF NoTx
<1>5. TypeOK
  <2>1. NoTx \in Transactions BY DEF NoTx, Transactions
  <2>2. sweep \in 0..MaxBatches - 1 /\ deploys \in 0..MaxDeploys /\ losses \in 0..MaxLosses
    BY <1>1, RequestsAssumption
  <2> QED BY <1>1, <1>3, <2>1, <2>2 DEF TypeOK
<1>6. ASSUME NEW a \in Attempts PROVE AttemptOK(a)
  <2>1. None.code \notin Definite /\ None # Given /\ None.code \notin {"committed", "conflict"}
    BY DEF None, Given, Definite
  <2>2. ~MaySend(a) BY <1>1, <1>4 DEF MaySend
  <2> USE <1>1, <1>4, <2>1, <2>2
  <2>3. RepliesLast(a) /\ SentByCommit(a) /\ RejectionExcludes(a)
    BY DEF RepliesLast, SentByCommit, RejectionExcludes
  <2>4. RepliesTrue(a) BY DEF RepliesTrue, Carries, Contends
  <2>5. RowFirst(a) /\ DeadlineIsOwners(a) BY DEF RowFirst, DeadlineIsOwners
  <2>6. ChecksFirst(a) BY DEF ChecksFirst, Started
  <2>7. LookedUp(a) BY DEF LookedUp, PastLookup
  <2> QED BY <2>3, <2>4, <2>5, <2>6, <2>7 DEF AttemptOK
<1>7. RowsTrue /\ OneWriter BY <1>1, <1>4 DEF RowsTrue, OneWriter, Writer
<1> QED BY <1>5, <1>6, <1>7 DEF AtomicInv

\* The inductive invariant of one-shot executions, with their types.
THEOREM AtomicInvariant == Spec => []TypeOK /\ []AtomicInv
<1>1. Init => TypeOK /\ AtomicInv BY InitKeeps
<1>2. TypeOK /\ AtomicInv /\ [Next]_vars => TypeOK' /\ AtomicInv' BY NextKeeps
<1> QED BY <1>1, <1>2, PTL DEF Spec

\* Every value has its type, and a cleanup never runs more than its batches.
THEOREM AtomicTypes == Spec => []TypeOK
BY AtomicInvariant, PTL

\* A key's write commits at most once while its row is retained, however many
\* attempts overlap, are lost or are retried (LOOKUP_SQL, INSERT_SQL).
THEOREM CommitsOncePerKey == Spec => []OncePerKey
<1>1. ASSUME TypeOK, AtomicInv PROVE OncePerKey
  <2> SUFFICES ASSUME NEW who \in Callers, NEW k \in Keys
               PROVE  Cardinality({a \in applied \ deleted : /\ Idempotent(a)
                                                             /\ run[a].request.who = who
                                                             /\ run[a].request.key = k}) <= 1
    BY DEF OncePerKey
  <2> DEFINE S == {a \in applied \ deleted : /\ Idempotent(a) /\ run[a].request.who = who
                                             /\ run[a].request.key = k}
             row == rows[<<who, k>>]
  <2>1. \A a \in S : a = row BY <1>1 DEF AtomicInv, RowsTrue, KeyHash
  <2>2. S \subseteq {row} BY <2>1
  <2> HIDE DEF S, row
  <2>3. IsFiniteSet({row}) /\ Cardinality({row}) = 1 BY FS_Singleton
  <2>4. Cardinality(S) <= 1 BY <2>2, <2>3, FS_Subset
  <2> QED BY <2>4 DEF S
<1> QED BY <1>1, AtomicInvariant, PTL

\* A conflict is the caller's own: another of its bodies committed under the key
\* (identity.rs: the key hash covers the caller).
THEOREM ConflictsAreOwn == Spec => []ConflictIsOwn
<1>1. ASSUME TypeOK, AtomicInv PROVE ConflictIsOwn
  BY <1>1 DEF ConflictIsOwn, AtomicInv, AttemptOK, RepliesTrue, Contends
<1> QED BY <1>1, AtomicInvariant, PTL

\* A committed reply carries the results of an attempt that did commit the
\* caller's request.
THEOREM CommittedRepliesAreTrue == Spec => []CommittedReplyIsTrue
<1>1. ASSUME TypeOK, AtomicInv PROVE CommittedReplyIsTrue
  BY <1>1 DEF CommittedReplyIsTrue, AtomicInv, AttemptOK, RepliesTrue, Carries
<1> QED BY <1>1, AtomicInvariant, PTL

\* A rejected attempt never commits: the codes the client library takes as proof
\* of no COMMIT are one, under every loss, delay and deadline.
THEOREM RejectionsNeverCommit == Spec => []RejectedNeverCommits
<1>1. ASSUME TypeOK, AtomicInv PROVE RejectedNeverCommits
  BY <1>1 DEF RejectedNeverCommits, AtomicInv, AttemptOK, RejectionExcludes, MaySend
<1> QED BY <1>1, AtomicInvariant, PTL

\* A guarded envelope commits only on its owner, after its checks.
THEOREM GuardedAreVetted == Spec => []GuardedIsVetted
<1>1. ASSUME TypeOK, AtomicInv PROVE GuardedIsVetted
  BY <1>1 DEF GuardedIsVetted, TypeOK, AtomicInv, AttemptOK, ChecksFirst, MaySend
<1> QED BY <1>1, AtomicInvariant, PTL

\* Where no owner's deadline passed, a rejection is true of what committed by
\* itself and of the attempts before it.
THEOREM TimelyRejectionsAreTrue == Spec => []TimelyRejectionIsTrue
<1>1. ASSUME TypeOK, AtomicInv PROVE TimelyRejectionIsTrue
  BY <1>1 DEF TimelyRejectionIsTrue, AtomicInv, AttemptOK, LookedUp, Spared
<1> QED BY <1>1, AtomicInvariant, PTL
===============================================================================
