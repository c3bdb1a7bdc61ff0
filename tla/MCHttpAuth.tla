----------------------------- MODULE MCHttpAuth -----------------------------
(* One request at a time over two tokens. *)
EXTENDS HttpAuth, TLC

Symmetry == Permutations(Tokens) \cup Permutations(Callers)
=============================================================================
