---------------------------- MODULE CommitRecord ----------------------------
(***************************************************************************)
(* What the owner of a transaction name promises, with nothing of how it   *)
(* keeps the promise: no lanes, drives, effects, timers or restarts.  One  *)
(* record, at most one COMMIT, and the fate of the database transaction.   *)
(*                                                                         *)
(* The record is written ahead: COMMIT is sent only under a record that    *)
(* allows for it, a definite end is recorded only if COMMIT was never      *)
(* sent, `committed` only once the database committed, and nothing but the *)
(* loss of a record follows a final one.  A record may skip `committing`:  *)
(* when its put fails and the engine then does, `commit_unknown` is what   *)
(* the store learns next.                                                  *)
(***************************************************************************)

VARIABLES
    record,     \* the phase in the durable record
    sent,       \* COMMIT was handed to the database
    fate        \* the database transaction: "none", "open", "committed", "aborted"

Ended == {"rolled_back", "failed", "expired"}

\* The phases that may replace a phase in the record.
Follows(phase) ==
    CASE phase = "absent"     -> {"active"} \cup Ended
      [] phase = "active"     -> {"validating", "committing", "commit_unknown"}
                                 \cup Ended
      [] phase = "validating" -> {"committing", "commit_unknown"} \cup Ended
      [] phase = "committing" -> {"committed", "commit_unknown"} \cup Ended
      [] phase = "unreadable" -> {"discarded"}
      [] OTHER                -> {}

Init == record = "absent" /\ sent = FALSE /\ fate = "none"

Write ==
    /\ record' \in Follows(record)
    /\ record' \in Ended => ~sent
    /\ record' = "committed" => sent /\ fate = "committed"

Keep == UNCHANGED record

Record == Write /\ UNCHANGED <<sent, fate>>

\* A transaction is opened only for a name that has no record yet.
Open ==
    /\ record = "absent" /\ ~sent
    /\ fate' = "open"
    /\ Write \/ Keep
    /\ UNCHANGED sent

\* COMMIT may still be on its way to the database when the outcome has already
\* been recorded as unknown.
Send ==
    /\ record \in {"committing", "commit_unknown"} /\ ~sent
    /\ sent' = TRUE
    /\ UNCHANGED <<record, fate>>

Apply ==
    /\ sent /\ fate = "open"
    /\ fate' = "committed"
    /\ UNCHANGED <<record, sent>>

Abort ==
    /\ fate = "open"
    /\ fate' = "aborted"
    /\ Write \/ Keep
    /\ UNCHANGED sent

\* A successor of another version cannot read the record.
Lose ==
    /\ record # "absent"
    /\ record' = "unreadable"
    /\ UNCHANGED <<sent, fate>>

Next == Record \/ Open \/ Send \/ Apply \/ Abort \/ Lose

Spec == Init /\ [][Next]_<<record, sent, fate>>
=============================================================================
