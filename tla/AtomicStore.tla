----------------------------- MODULE AtomicStore -----------------------------
(***************************************************************************)
(* What the registry of contexts promises to its users: one database, the  *)
(* set of the transactions it holds, to which every commit adds atomically *)
(* and from which nothing is ever lost.                                    *)
(***************************************************************************)
CONSTANT Tx

VARIABLE db

Init == db = {}

Commit(t) == db' = db \cup {t}

Next == \E t \in Tx : Commit(t)

Spec == Init /\ [][Next]_db
=============================================================================
