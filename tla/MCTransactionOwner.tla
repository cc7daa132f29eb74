-------------------------- MODULE MCTransactionOwner --------------------------
(* Small instances of TransactionOwner for TLC: which commands clients send  *)
(* and which queries validators send.                                        *)
EXTENDS TransactionOwner

CONSTANTS
    Seqs,       \* the sequences commands carry (0: none)
    Pays,       \* what their statements do
    QuerySeqs,  \* the sequences callback queries carry
    QueryPays   \* what the queries do

Cmd(kind, seq, pay, snap, auth) ==
    [NoCmd EXCEPT !.kind = kind, !.seq = seq, !.pay = pay, !.snap = snap,
                  !.auth = auth]

MCClientInputs ==
    {Cmd("begin", 0, "none", s, p) : s \in Snapshots, p \in Principals}
    \cup {Cmd("statement", n, pay, s, p) :
            n \in Seqs, pay \in Pays, s \in Snapshots, p \in Principals}
    \cup {Cmd(k, n, "none", s, p) : k \in {"commit", "rollback"}, n \in Seqs,
            s \in Snapshots, p \in Principals}
    \cup {[NoCmd EXCEPT !.kind = "invalid"]}

\* Token Checks + 1 is one no capability ever had.
MCCallbackInputs ==
    {[NoCmd EXCEPT !.kind = "query", !.seq = n, !.pay = pay, !.tok = t] :
        n \in QuerySeqs, pay \in QueryPays, t \in 1..(Checks + 1)}
==============================================================================
