----------------------------- MODULE MCSessions -----------------------------
(***************************************************************************)
(* Instances of Sessions for TLC.  Users, tenants, tokens, reset tokens    *)
(* and requests are interchangeable.                                       *)
(***************************************************************************)
EXTENDS Sessions, TLC

Symmetry == Permutations(Users) \cup Permutations(Tenants) \cup Permutations(Tokens)
              \cup Permutations(Resets) \cup Permutations(Reqs)

\* Bound: a run has a request that is cut off or an account that moves, and in
\* either case one token stays unused.
Bounded ==
  LET moved == \E u \in Users : moves[u] > 0 IN
  /\ ~ (faults > 0 /\ moved)
  /\ faults > 0 \/ moved => \E t \in Tokens : token[t].state = "none"
=============================================================================
