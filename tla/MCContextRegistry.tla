--------------------------- MODULE MCContextRegistry ---------------------------
(* Instances of ContextRegistry for TLC. *)
EXTENDS ContextRegistry, TLC

CONSTANTS p1, p2, a1, a2, a3, a4, t1, t2, t3

MCProc == {p1, p2}
MCAddr == {a1, a2, a3, a4}
MCAddr2 == {a1, a2}
MCTx == {t1, t2}
MCTx3 == {t1, t2, t3}

\* The entry points used on an initialised registry, and those that find it empty.
MCNoLocked == {m \in AllModes : m.op # "locked"}
MCColdModes == {m \in AllModes : m.op \in {"gc", "locked"}}
MCResultModes == {[op |-> "result", sync |-> TRUE]}

\* Addresses and transactions are interchangeable: no definition orders them.
Symmetry == Permutations(Addr) \cup Permutations(Tx)

=============================================================================
