---------------------------- MODULE Connections ----------------------------
(***************************************************************************)
(* The threads, mutexes, descriptors and sends of the server (main.c,      *)
(* sync.c, network.c): the accept loop and one thread per client, each     *)
(* lock, unlock and send a step of its own.                                *)
(*                                                                         *)
(* What a handler decides is Server's; here a handler is any sequence of   *)
(* the calls that take a mutex, under matches_mutex or outside it.         *)
(*                                                                         *)
(* The k-th connection accepted has number k (from 0).  Refused ones come  *)
(* last, so the connection of player p is connection p.  The kernel's part *)
(* (what a send can take, when a peer leaves) is nondeterministic, except  *)
(* that a new descriptor is the lowest free one.                           *)
(***************************************************************************)
EXTENDS Integers, FiniteSets

CONSTANTS MAX_PLAYERS,
          MsgLen,           \* the number of pieces a message can be sent in
          StallLimit,       \* failures in a row send_message puts up with, 2000
          MaxConnections,   \* bound: the connections attempted
          MaxDescriptors,   \* descriptors the process may have open
          MaxCalls,         \* bound: the calls of one handler
          Main,             \* the thread of the accept loop
          Nobody            \* no thread, no connection

Players     == 0 .. MAX_PLAYERS - 1
Connections == 0 .. MaxConnections - 1
Descriptors == 0 .. MaxDescriptors - 1
Threads     == Players \cup {Main}

ASSUME ConnectionsAssumption ==
  /\ MAX_PLAYERS \in Nat \ {0} /\ MsgLen \in Nat \ {0} /\ StallLimit \in Nat
  /\ MaxConnections \in Nat /\ MAX_PLAYERS <= MaxConnections
  /\ MaxDescriptors \in Nat \ {0} /\ MaxCalls \in Nat
  /\ Main \notin Nat /\ Nobody \notin Nat /\ Main # Nobody

VARIABLES matches_mutex, players_mutex,  \* the thread that holds it, or Nobody
          send_mutex,       \* the same for players[p]->send_mutex
          players,          \* players[p]->state, "NULL" before there is one
          players_count,
          socket_fd,        \* players[p]->socket_fd
          open,             \* the connection behind each descriptor, or Nobody
          peer,             \* the other end of each connection
          wire,             \* what has become of the lines on each connection
          pc,               \* where the thread of each player is
          call,             \* the call the thread is in
          calls,            \* the calls its handler may still make
          leaving,          \* the threads that have left their receive loop
          accepting,        \* the accept loop: where it is, and with what
          alive             \* FALSE once the process was killed

mutexes == <<matches_mutex, players_mutex, send_mutex>>
table   == <<players, players_count, socket_fd>>
kernel  == <<open, peer, wire, alive>>
vars    == <<mutexes, table, kernel, pc, call, calls, leaving, accepting>>

PlayerStates == {"NULL", "CONNECTED", "WAITING", "DISCONNECTED"}

Ops == {"none", "send", "name", "broadcast", "register", "mark"}

\* A call of op concerning player to; todo are those a broadcast has still to
\* notify; left and stalls are the progress of send_message.
Call(op, to, todo) == [op |-> op, to |-> to, todo |-> todo, left |-> MsgLen, stalls |-> 0]

Calls == [op : Ops, to : Players, todo : SUBSET Players,
          left : 0 .. MsgLen, stalls : 0 .. StallLimit]

\* The stream of a connection: the thread in the middle of a line; of the line
\* begun last, whether it runs into another (torn), and whether half a line given
\* up is in it or before it (half); and whether somebody else's line was ever
\* written (stray).  It is forgotten with the connection.
Wire == [line : Players \cup {Nobody}, stray : BOOLEAN, half : BOOLEAN, torn : BOOLEAN]

Silent == [line |-> Nobody, stray |-> FALSE, half |-> FALSE, torn |-> FALSE]

Init == /\ matches_mutex = Nobody /\ players_mutex = Nobody
        /\ send_mutex = [p \in Players |-> Nobody]
        /\ players = [p \in Players |-> "NULL"] /\ players_count = 0
        /\ socket_fd = [p \in Players |-> 0]
        /\ open = [d \in Descriptors |-> Nobody]
        /\ peer = [c \in Connections |-> "absent"]
        /\ wire = [c \in Connections |-> Silent]
        /\ pc = [p \in Players |-> "none"]
        /\ call = [p \in Players |-> Call("none", p, {})]
        /\ calls = [p \in Players |-> 0] /\ leaving = {}
        /\ accepting = [pc |-> "accept", conn |-> 0, fd |-> 0]
        /\ alive = TRUE

-----------------------------------------------------------------------------
(* The accept loop of main.                                                *)

\* The descriptor is free for the next connection; the kernel forgets this one.
close_connection(d) == /\ open' = [open EXCEPT ![d] = Nobody]
                       /\ peer' = [c \in Connections |->
                                     IF c = open[d] THEN "absent" ELSE peer[c]]
                       /\ wire' = [c \in Connections |->
                                     IF c = open[d] THEN Silent ELSE wire[c]]

LowestFree(d) == open[d] = Nobody /\ \A e \in 0 .. d - 1 : open[e] # Nobody

\* accept_client_connection: without a free descriptor it fails, and is retried.
Accept == /\ accepting.pc = "accept" /\ accepting.conn < MaxConnections
          /\ \E d \in Descriptors :
               /\ LowestFree(d)
               /\ open' = [open EXCEPT ![d] = accepting.conn]
               /\ accepting' = [accepting EXCEPT !.pc = "players", !.fd = d]
          /\ peer' = [peer EXCEPT ![accepting.conn] = "open"]
          /\ UNCHANGED <<mutexes, table, wire, alive, pc, call, calls, leaving>>

AcceptLock == /\ accepting.pc = "players" /\ players_mutex = Nobody
              /\ players_mutex' = Main
              /\ accepting' = [accepting EXCEPT !.pc = "table"]
              /\ UNCHANGED <<matches_mutex, send_mutex, table, kernel, pc, call, calls, leaving>>

\* A slip the checks must notice: one player too many is let in.
TableFullTooLate == players_count > MAX_PLAYERS

TableFull == players_count >= MAX_PLAYERS

Refuse == /\ accepting.pc = "table" /\ TableFull
          /\ close_connection(accepting.fd)
          /\ players_mutex' = Nobody
          /\ accepting' = [pc |-> "accept", conn |-> accepting.conn + 1, fd |-> 0]
          /\ UNCHANGED <<matches_mutex, send_mutex, table, alive,
                         pc, call, calls, leaving>>

Admit == /\ accepting.pc = "table" /\ ~TableFull
         /\ players' = [players EXCEPT ![players_count] = "CONNECTED"]
         /\ socket_fd' = [socket_fd EXCEPT ![players_count] = accepting.fd]
         /\ players_count' = players_count + 1
         /\ players_mutex' = Nobody
         /\ accepting' = [accepting EXCEPT !.pc = "spawn"]
         /\ UNCHANGED <<matches_mutex, send_mutex, kernel, pc, call, calls, leaving>>

\* pthread_create: the new thread begins its receive loop.
Spawn == /\ accepting.pc = "spawn"
         /\ pc' = [pc EXCEPT ![accepting.conn] = "loop"]
         /\ accepting' = [pc |-> "accept", conn |-> accepting.conn + 1, fd |-> 0]
         /\ UNCHANGED <<mutexes, table, kernel, call, calls, leaving>>

-----------------------------------------------------------------------------
(* The thread of player t: its requests and the calls of its handlers.     *)

Go(t, where) == pc' = [pc EXCEPT ![t] = where]

\* Every call begins by locking players_mutex.
Begin(t, c) == call' = [call EXCEPT ![t] = c] /\ Go(t, "players")

\* A request: a registration, an action no handler knows, or one about matches.
Request(t) == /\ pc[t] = "loop"
              /\ \/ Begin(t, Call("register", t, {})) /\ UNCHANGED calls
                 \/ Begin(t, Call("send", t, {})) /\ UNCHANGED calls
                 \/ /\ Go(t, "matches") /\ UNCHANGED call
                    /\ calls' = [calls EXCEPT ![t] = MaxCalls]
              /\ UNCHANGED <<mutexes, table, kernel, leaving, accepting>>

\* A slip the checks must notice: the socket is closed before the clean-up.
LeaveClosing(t) == /\ pc[t] = "loop"
                   /\ leaving' = leaving \cup {t}
                   /\ close_connection(socket_fd[t])
                   /\ calls' = [calls EXCEPT ![t] = MaxCalls]
                   /\ Go(t, "matches")
                   /\ UNCHANGED <<mutexes, table, alive, call, accepting>>

\* The receive loop is left (Framing says when); the clean-up locks the matches.
Leave(t) == /\ pc[t] = "loop"
            /\ leaving' = leaving \cup {t}
            /\ calls' = [calls EXCEPT ![t] = MaxCalls]
            /\ Go(t, "matches")
            /\ UNCHANGED <<mutexes, table, kernel, call, accepting>>

LockMatches(t) == /\ pc[t] = "matches" /\ matches_mutex = Nobody
                  /\ matches_mutex' = t
                  /\ Go(t, "inside")
                  /\ UNCHANGED <<players_mutex, send_mutex, table, kernel,
                                 call, calls, leaving, accepting>>

\* The handler answers or notifies q, reads or writes an entry of the table
\* (get_username, current_match_id), or tells everybody but itself and q.
HandlerCalls(t) == /\ pc[t] = "inside" /\ calls[t] > 0
                   /\ \E q \in Players, op \in {"send", "name", "broadcast"} :
                        players[q] # "NULL" /\ Begin(t, Call(op, q, {}))
                   /\ calls' = [calls EXCEPT ![t] = @ - 1]
                   /\ UNCHANGED <<mutexes, table, kernel, leaving, accepting>>

\* A slip the checks must notice: a thread that has cleaned up receives again.
AfterHandlerReceive(t) == "loop"

AfterHandler(t) == IF t \in leaving THEN "close" ELSE "loop"

UnlockMatches(t) == /\ pc[t] = "inside"
                    /\ matches_mutex' = Nobody
                    /\ Go(t, AfterHandler(t))
                    /\ calls' = [calls EXCEPT ![t] = 0]
                    /\ UNCHANGED <<players_mutex, send_mutex, table, kernel,
                                   call, leaving, accepting>>

\* The first of S, and then the others: who a broadcast notifies.
Notify(t, S) == \E q \in S : /\ \A r \in S : q <= r
                             /\ Begin(t, Call("send", q, S \ {q}))

\* A call returns to its handler, inside or outside matches_mutex, once it has
\* nobody left to notify.
Return(t) == \/ Notify(t, call[t].todo)
             \/ /\ call[t].todo = {}
                /\ call' = [call EXCEPT ![t] = Call("none", t, {})]
                /\ Go(t, IF matches_mutex = t THEN "inside" ELSE "loop")

LockPlayers(t) == /\ pc[t] = "players" /\ players_mutex = Nobody
                  /\ players_mutex' = t
                  /\ Go(t, "table")
                  /\ UNCHANGED <<matches_mutex, send_mutex, table, kernel,
                                 call, calls, leaving, accepting>>

\* A slip the checks must notice: a broadcast sends with the table locked.
UnlockTableNotForBroadcast(t) ==
  players_mutex' = IF call[t].op = "broadcast" THEN players_mutex ELSE Nobody

UnlockTable(t) == players_mutex' = Nobody

\* What each call does while it holds players_mutex.
AtTable(t) ==
  LET op == call[t].op
      to == call[t].to
  IN  /\ pc[t] = "table"
      /\ UnlockTable(t)
      /\ \/ /\ op = "send"                        \* the pointer is read
            /\ Go(t, "found") /\ UNCHANGED <<players, call, leaving>>
         \/ /\ op = "name"
            /\ Return(t) /\ UNCHANGED <<players, leaving>>
         \/ /\ op = "broadcast"
            /\ LET heard == {q \in Players \ {t, to} :
                               players[q] \notin {"NULL", "DISCONNECTED"}}
               IN  \/ Notify(t, heard)
                   \/ heard = {} /\ Return(t)
            /\ UNCHANGED <<players, leaving>>
         \/ /\ op = "register"                    \* and then answers
            /\ players' = [players EXCEPT ![t] = "WAITING"]
            /\ Begin(t, Call("send", t, {})) /\ UNCHANGED leaving
         \/ /\ op = "mark"
            /\ players' = [players EXCEPT ![t] = "DISCONNECTED"]
            /\ call' = [call EXCEPT ![t] = Call("none", t, {})]
            /\ Go(t, "ended") /\ leaving' = leaving \ {t}
      /\ UNCHANGED <<matches_mutex, send_mutex, players_count, socket_fd, kernel,
                     calls, accepting>>

\* send_response looks at p->state with no mutex held.
LookAtState(t) == /\ pc[t] = "found"
                  /\ \/ /\ players[call[t].to] = "DISCONNECTED"
                        /\ Return(t)
                     \/ /\ players[call[t].to] # "DISCONNECTED"
                        /\ Go(t, "send") /\ UNCHANGED call
                  /\ UNCHANGED <<mutexes, table, kernel, calls, leaving, accepting>>

-----------------------------------------------------------------------------
(* send_message, under the send mutex of the player it is for.             *)

\* A slip the checks must notice: the send mutex is not taken.
SendFreeAlways(p) == TRUE

SendFree(p) == send_mutex[p] = Nobody

LockSend(t) == /\ pc[t] = "send" /\ SendFree(call[t].to)
               /\ send_mutex' = [send_mutex EXCEPT ![call[t].to] = t]
               /\ Go(t, "writing")
               /\ UNCHANGED <<matches_mutex, players_mutex, table, kernel,
                              call, calls, leaving, accepting>>

\* The connection thread t is writing to, or Nobody when the descriptor is closed.
Target(t) == open[socket_fd[call[t].to]]

\* send takes n pieces of what is left: the kernel knows the descriptor only.  A
\* line that begins where the one before it ended is whole, whatever came earlier.
Write(t, n) ==
  LET to   == call[t].to
      c    == Target(t)
      left == call[t].left
      w    == wire[c]
  IN  /\ pc[t] = "writing"
      /\ c # Nobody /\ peer[c] # "reset" /\ n <= left
      /\ wire' = [wire EXCEPT ![c] =
           [line  |-> IF n = left THEN Nobody ELSE t,
            stray |-> w.stray \/ c # to,
            half  |-> w.half /\ w.line # Nobody,
            torn  |-> \/ w.line # (IF left = MsgLen THEN Nobody ELSE t)
                      \/ w.torn /\ left # MsgLen]]
      /\ call' = [call EXCEPT ![t].left = left - n, ![t].stalls = 0]
      /\ Go(t, IF n = left THEN "written" ELSE "writing")
      /\ UNCHANGED <<mutexes, table, open, peer, alive, calls, leaving, accepting>>

\* A slip the checks must notice: the failures in a row are not counted.
StallNotCounted(t) == 0

Stall(t) == call[t].stalls + 1

\* send returns -1: no room, a connection just reset, or a closed descriptor.
\* After StallLimit failures in a row send_message gives up, in mid-line or not.
Fail(t) ==
  /\ pc[t] = "writing"
  /\ \/ /\ Stall(t) <= StallLimit
        /\ call' = [call EXCEPT ![t].stalls = Stall(t)]
        /\ UNCHANGED <<pc, wire>>
     \/ /\ Stall(t) > StallLimit
        /\ wire' = [c \in Connections |->
                      [wire[c] EXCEPT !.half = @ \/ wire[c].line = t]]
        /\ Go(t, "written") /\ UNCHANGED call
  /\ UNCHANGED <<mutexes, table, open, peer, alive, calls, leaving, accepting>>

\* A send to a connection that was reset raises SIGPIPE, which nothing handles.
BrokenPipe(t) == /\ pc[t] = "writing"
                 /\ Target(t) # Nobody /\ peer[Target(t)] = "reset"
                 /\ alive' = FALSE
                 /\ UNCHANGED <<mutexes, table, open, peer, wire,
                                pc, call, calls, leaving, accepting>>

\* The result of send_message is not looked at.
UnlockSend(t) == /\ pc[t] = "written"
                 /\ send_mutex' = [send_mutex EXCEPT ![call[t].to] = Nobody]
                 /\ Return(t)
                 /\ UNCHANGED <<matches_mutex, players_mutex, table, kernel,
                                calls, leaving, accepting>>

-----------------------------------------------------------------------------
(* The end of a connection, and its client.                                *)

\* close_connection, with no mutex held; the player is marked afterwards.
Close(t) == /\ pc[t] = "close"
            /\ close_connection(socket_fd[t])
            /\ Begin(t, Call("mark", t, {}))
            /\ UNCHANGED <<mutexes, table, alive, calls, leaving, accepting>>

\* The client closes its end, or its host has gone and says so.
PeerLeaves(c) == /\ \/ peer[c] = "open" /\ peer' = [peer EXCEPT ![c] = "shut"]
                    \/ peer[c] \in {"open", "shut"} /\ peer' = [peer EXCEPT ![c] = "reset"]
                 /\ UNCHANGED <<mutexes, table, open, wire, alive,
                                pc, call, calls, leaving, accepting>>

Acceptor == Accept \/ AcceptLock \/ Refuse \/ Admit \/ Spawn

Takes(t) == LockMatches(t) \/ LockPlayers(t) \/ LockSend(t)

Sends(t) == (\E n \in 1 .. MsgLen : Write(t, n)) \/ Fail(t) \/ BrokenPipe(t)

Runs(t) == HandlerCalls(t) \/ UnlockMatches(t) \/ AtTable(t) \/ LookAtState(t)
           \/ Sends(t) \/ UnlockSend(t) \/ Close(t)

\* Nothing goes on: the process is dead, or every thread waits for its client.
Quiet == /\ \/ ~alive
            \/ /\ accepting.pc = "accept"
               /\ \A t \in Players : pc[t] \in {"none", "loop", "ended"}
         /\ UNCHANGED vars

Next == \/ alive /\ \/ Acceptor
                    \/ \E t \in Players : Request(t) \/ Leave(t) \/ Takes(t) \/ Runs(t)
                    \/ \E c \in Connections : PeerLeaves(c)
        \/ Quiet

Live(A) == alive /\ A

\* A thread that can go on again and again does: it is scheduled, and a mutex
\* that is released again and again is got in the end.  A client that has left
\* has written finitely many requests.
Fairness == /\ SF_vars(Live(AcceptLock \/ Refuse \/ Admit \/ Spawn))
            /\ \A t \in Players : /\ SF_vars(Live(Takes(t) \/ Runs(t)))
                                  /\ SF_vars(Live(peer[t] # "open" /\ Leave(t)))

Spec == Init /\ [][Next]_vars /\ Fairness
=============================================================================
