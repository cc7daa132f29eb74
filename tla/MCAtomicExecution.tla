-------------------------- MODULE MCAtomicExecution ---------------------------
(***************************************************************************)
(* Two attempts, each with any of these requests: "g" could trigger a       *)
(* commit check, so it runs on an owner, and writes twice; "w" is a write   *)
(* the engine runs itself.  Both are sent under one key, so two attempts    *)
(* are a retry, a conflict or two callers' own; one request has a malformed *)
(* key, one no key, one only reads.                                         *)
(***************************************************************************)
EXTENDS AtomicExecution, TLC

CONSTANTS a1, a2

ExecuteOf(who, key, body) == [who |-> who, key |-> key, body |-> body]
AllRequests == {ExecuteOf("p", "k", "g"), ExecuteOf("p", "k", "w"), ExecuteOf("q", "k", "w"),
                ExecuteOf("p", "malformed", "w"), ExecuteOf("p", "none", "g"),
                ExecuteOf("p", "none", "r")}
RetriesOnly == {ExecuteOf("p", "k", "g")}

\* The second deployment does not compile "g".
Narrowed == [v \in Versions |-> IF v = "v1" THEN Bodies ELSE Bodies \ {"g"}]

Symmetric == Permutations({a1, a2})
================================================================================
