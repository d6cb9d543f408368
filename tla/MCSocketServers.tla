--------------------------- MODULE MCSocketServers ---------------------------
(* Three clients, of which one only connects; a set for the descriptors of two. *)
EXTENDS SocketServers

CONSTANTS c1, c2, c3

Ahead == [c \in Client |-> CASE c = c1 -> 2 [] c = c2 -> 1 [] c = c3 -> 0]
===============================================================================
