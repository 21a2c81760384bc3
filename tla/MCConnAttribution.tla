-------------------------- MODULE MCConnAttribution --------------------------
(* TLC instances of ConnAttribution. *)
EXTENDS ConnAttribution, TLC

(* Threads are alike, and so are sockets. *)
Alike == Permutations(Threads) \cup Permutations(Socks)
=============================================================================
