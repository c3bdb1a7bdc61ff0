--------------------------- MODULE MCSqliteStore ----------------------------
(* SqliteStore on two agents, three tokens and two DNAs. *)
EXTENDS SqliteStore, TLC

Symmetry == Permutations(Agents) \cup Permutations(Tokens) \cup Permutations(Dnas)
=============================================================================
