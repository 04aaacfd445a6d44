--------------------------- MODULE MCConnections ---------------------------
(* The threads and connections of the server for TLC.                      *)
EXTENDS ConnectionsProperties

\* No guard tells a registered client from one that is only connected.
WithoutRegistration ==
  <<mutexes, players_count, socket_fd, kernel, pc, call, calls, leaving, accepting,
    [p \in Players |-> IF players[p] = "WAITING" THEN "CONNECTED" ELSE players[p]]>>
=============================================================================
