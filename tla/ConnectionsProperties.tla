----------------------- MODULE ConnectionsProperties -----------------------
(* What is checked and proved of the server's threads and connections.     *)
EXTENDS Connections

Pcs == {"none", "loop", "matches", "inside", "players", "table", "found",
        "send", "writing", "written", "close", "ended"}

\* Every variable of Connections has its type; the numbers of players and
\* connections are those the accept loop has given out.
TypeOK == /\ matches_mutex \in Players \cup {Nobody}
          /\ players_mutex \in Threads \cup {Nobody}
          /\ send_mutex \in [Players -> Players \cup {Nobody}]
          /\ players \in [Players -> PlayerStates]
          /\ players_count \in 0 .. MAX_PLAYERS
          /\ socket_fd \in [Players -> Descriptors]
          /\ open \in [Descriptors -> Connections \cup {Nobody}]
          /\ peer \in [Connections -> {"absent", "open", "shut", "reset"}]
          /\ wire \in [Connections -> Wire]
          /\ pc \in [Players -> Pcs]
          /\ call \in [Players -> Calls]
          /\ calls \in [Players -> 0 .. MaxCalls]
          /\ leaving \subseteq Players
          /\ accepting \in [pc : {"accept", "players", "table", "spawn"},
                            conn : 0 .. MaxConnections, fd : Descriptors]
          /\ alive \in BOOLEAN

-----------------------------------------------------------------------------
\* Thread t waits for a mutex thread u holds.
WaitsFor(t, u) ==
  IF t = Main THEN accepting.pc = "players" /\ players_mutex = u
  ELSE \/ pc[t] = "matches" /\ matches_mutex = u
       \/ pc[t] = "players" /\ players_mutex = u
       \/ pc[t] = "send" /\ send_mutex[call[t].to] = u

\* The comment at send_response promises the order matches, players, send
\* (main.c:87): no set of threads wait for each other, whatever they call with
\* which mutex held, a thread for itself included.
NoCircularWait == \A S \in (SUBSET Threads) \ {{}} :
                    \E t \in S : \A u \in S : ~WaitsFor(t, u)

\* A line runs into another on a connection only if that one was given up in the
\* middle, or if something came by the descriptor of another player: the send
\* mutex (player.h:21) keeps threads that notify the same player apart.  Nobody
\* looks at the result of send_message (main.c:99), so the next line is lost with
\* the half one; but that one only: the line after it begins anew.
LinesKeptApart ==
  \A c \in Connections : wire[c].torn => wire[c].half \/ wire[c].stray

\* The descriptor of a player whose thread has not closed it is his connection,
\* whatever the kernel has given out since: as long as he is served or cleaned
\* up, what is sent to him reaches him and nobody else.
DescriptorIsOwn == \A p \in Players : pc[p] \notin {"none", "ended"} /\ call[p].op # "mark"
                                        => open[socket_fd[p]] = p

\* A thread that waits for matches_mutex, to handle a request or to clean up,
\* gets it and has done with it: nobody holds it for ever, although messages are
\* sent under it to clients that may have stopped reading.
RequestsEnd == \A t \in Players :
                 pc[t] = "matches" ~> ~alive \/ pc[t] \in {"loop", "ended"}

\* The connection of a client that has left is closed and the client marked,
\* whatever the others and the accept loop do meanwhile.
LeaversAreMarked == \A t \in Players :
                      pc[t] # "none" /\ peer[t] # "open"
                        ~> ~alive \/ players[t] = "DISCONNECTED"

-----------------------------------------------------------------------------
(* What comments promise and the code does not keep.                       *)

\* player.h:21-23: the send mutex of a player protects his socket from
\* concurrent writes, of his own thread and of those that notify him.
OneWriter == \A t, u \in Players :
               pc[t] = "writing" /\ pc[u] = "writing" /\ Target(t) = Target(u)
                 => t = u \/ Target(t) = Nobody
=============================================================================
