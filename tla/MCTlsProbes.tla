----------------------------- MODULE MCTlsProbes -----------------------------
(* TLC instances of TlsProbes. *)
EXTENDS TlsProbes, TLC

CONSTANTS t1, t2, g1, p1, x1, x2

(* One process. *)
OneProcess == [c \in Contexts |-> p1]

(* Threads of a process are alike, and so are addresses. *)
Alike == Permutations({t1, t2}) \cup Permutations({x1, x2})
=============================================================================
