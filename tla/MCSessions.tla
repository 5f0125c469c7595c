----------------------------- MODULE MCSessions -----------------------------
(* Sessions on a small instance, with its interchangeable sets symmetric.  *)
EXTENDS Sessions, TLC

Symmetry == Permutations(Token) \cup Permutations(Replica)
              \cup Permutations(Request) \cup Permutations(User)
=============================================================================
