----------------------------- MODULE MCWebsocket ----------------------------
(* Websocket on small sets of connections, agents and DNAs. *)
EXTENDS Websocket, TLC

Symmetry == Permutations(Conns) \cup Permutations(Agents)
=============================================================================
