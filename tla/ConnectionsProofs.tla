------------------------- MODULE ConnectionsProofs -------------------------
(***************************************************************************)
(* Theorems about the threads and connections of the server, for every     *)
(* number of threads, connections, descriptors and pieces of a message:    *)
(* no threads wait for each other in a circle, what is sent to a player    *)
(* who is served goes to his connection, and a line runs into another only *)
(* where one was given up or strayed.                                      *)
(***************************************************************************)
EXTENDS ConnectionsProperties, TLAPS

\* Where a thread is in a call, and where it may hold matches_mutex.
Calling == {"players", "table", "found", "send", "writing", "written"}

Handling == Calling \cup {"inside"}

\* Who holds a mutex is where it is released, or on its way there.
MutexesHeld ==
  /\ \A t \in Players : matches_mutex = t => pc[t] \in Handling
  /\ \A t \in Players : call[t].op = "mark" =>
                          pc[t] \in {"players", "table"} /\ matches_mutex # t
  /\ \A t \in Players : players_mutex = t => pc[t] = "table"
  /\ players_mutex = Main => accepting.pc = "table"
  /\ \A t, q \in Players :
       send_mutex[q] = t <=> pc[t] \in {"writing", "written"} /\ call[t].to = q

\* Connections and players are counted together until the table is full.
Counted ==
  /\ accepting.pc # "accept" => accepting.conn < MaxConnections
  /\ players_count = IF accepting.pc = "spawn" THEN accepting.conn + 1
                     ELSE IF accepting.conn <= MAX_PLAYERS THEN accepting.conn
                     ELSE MAX_PLAYERS
  /\ \A p \in Players : pc[p] # "none" => p < accepting.conn
  /\ \A p \in Players : players[p] # "NULL" => p < players_count
  /\ \A t \in Players : pc[t] \in Calling =>
       call[t].to < players_count /\ \A q \in call[t].todo : q < players_count

\* The connection being accepted, and those of the players served, are behind
\* their descriptors.
DescriptorsHeld ==
  /\ accepting.pc \in {"players", "table"} => open[accepting.fd] = accepting.conn
  /\ accepting.pc = "spawn" => open[socket_fd[accepting.conn]] = accepting.conn
  /\ DescriptorIsOwn

\* The thread in the middle of a line of its own player, on a connection nobody
\* strayed to, writes that line or has given it up; and who has written a part of
\* a line is in the middle of it.
LinesHeld ==
  /\ \A t \in Players : pc[t] \in {"players", "table", "found", "send"} =>
                          call[t].left = MsgLen
  /\ \A c \in Connections, t \in Players :
       wire[c].line = t /\ ~wire[c].stray /\ ~wire[c].half =>
         pc[t] = "writing" /\ call[t].to = c /\ call[t].left < MsgLen /\ Target(t) = c
  /\ \A t \in Players :
       LET to == call[t].to
       IN  /\ pc[t] = "writing" /\ call[t].left < MsgLen
           /\ Target(t) = to /\ ~wire[to].stray
           => wire[to].line = t
  /\ LinesKeptApart

Inv == TypeOK /\ MutexesHeld /\ Counted /\ DescriptorsHeld /\ LinesHeld


\* Players, connections and threads are told apart.
LEMMA Distinct == /\ Players \subseteq Connections /\ Connections \subseteq Nat
                  /\ Main \notin Connections /\ Nobody \notin Connections /\ Main # Nobody
                  /\ Players \subseteq Threads /\ Main \in Threads
                  /\ \A p : p \in Players <=> p \in Nat /\ p < MAX_PLAYERS
                  /\ \A c : c \in Connections <=> c \in Nat /\ c < MaxConnections
                  /\ 0 \in Descriptors
  BY ConnectionsAssumption DEF Players, Connections, Threads, Descriptors

\* A new call is a call, with all of its message still to be sent.
LEMMA NewCall ==
  ASSUME NEW op \in Ops, NEW to \in Players, NEW todo \in SUBSET Players
  PROVE  /\ Call(op, to, todo) \in Calls /\ Call(op, to, todo).left = MsgLen
         /\ Call(op, to, todo).op = op /\ Call(op, to, todo).to = to
         /\ Call(op, to, todo).todo = todo
  BY ConnectionsAssumption DEF Call, Calls

\* Thread t goes where, now in call c.
Turns(t, c, where) == /\ c \in Calls
                      /\ call' = [call EXCEPT ![t] = c] /\ pc' = [pc EXCEPT ![t] = where]

\* Its call c is to send another message, or is none: the handler goes on.
SendsNext(t, c) == Turns(t, c, "players") /\ c.op = "send" /\ c.left = MsgLen

GoesOn(t, c) == Turns(t, c, IF matches_mutex = t THEN "inside" ELSE "loop") /\ c.op = "none"

\* A broadcast to S goes on with one of S.
LEMMA Notifies ==
  ASSUME NEW t \in Players, NEW S \in SUBSET Players, Notify(t, S)
  PROVE  \E c : SendsNext(t, c) /\ c.to \in S /\ c.todo \subseteq S
<1>1. PICK q \in S : Begin(t, Call("send", q, S \ {q}))
  BY DEF Notify
<1>2. /\ Call("send", q, S \ {q}) \in Calls /\ Call("send", q, S \ {q}).left = MsgLen
      /\ Call("send", q, S \ {q}).op = "send" /\ Call("send", q, S \ {q}).to = q
      /\ Call("send", q, S \ {q}).todo = S \ {q}
  BY NewCall DEF Ops
<1> WITNESS Call("send", q, S \ {q})
<1> QED
  BY <1>1, <1>2 DEF Begin, Go, Turns, SendsNext

\* A call goes on with somebody it has still to notify, or is over.
LEMMA Returns ==
  ASSUME TypeOK, NEW t \in Players, Return(t)
  PROVE  \E c : \/ SendsNext(t, c) /\ c.to \in call[t].todo /\ c.todo \subseteq call[t].todo
               \/ GoesOn(t, c)
<1>1. call[t].todo \in SUBSET Players
  BY DEF TypeOK, Calls
<1>2. CASE Notify(t, call[t].todo)
  BY <1>1, <1>2, Notifies
<1>3. CASE /\ call' = [call EXCEPT ![t] = Call("none", t, {})]
           /\ Go(t, IF matches_mutex = t THEN "inside" ELSE "loop")
  <2>1. Call("none", t, {}) \in Calls /\ Call("none", t, {}).op = "none"
    BY NewCall DEF Ops
  <2> QED
    BY <1>3, <2>1 DEF Go, Turns, GoesOn
<1> QED
  BY <1>2, <1>3 DEF Return

\* send_message goes on with less of the same call, or is done with it.
LEMMA Writes ==
  ASSUME TypeOK, NEW t \in Players, NEW n \in 1 .. MsgLen, Write(t, n)
  PROVE  /\ pc[t] = "writing" /\ n <= call[t].left
         /\ UNCHANGED <<mutexes, table, open, peer, alive, calls, leaving, accepting>>
         /\ \E c : /\ Turns(t, c, IF n = call[t].left THEN "written" ELSE "writing")
                   /\ c.op = call[t].op /\ c.to = call[t].to /\ c.todo = call[t].todo
                   /\ c.left = call[t].left - n
<1> SUFFICES \E c : /\ Turns(t, c, IF n = call[t].left THEN "written" ELSE "writing")
                   /\ c.op = call[t].op /\ c.to = call[t].to /\ c.todo = call[t].todo
                   /\ c.left = call[t].left - n
  BY Zenon DEF Write
<1> DEFINE c == [call[t] EXCEPT !.left = call[t].left - n, !.stalls = 0]
<1>1. call[t] \in Calls /\ n <= call[t].left
  BY DEF TypeOK, Write
<1>2. c \in Calls
  <2>1. call[t].left - n \in 0 .. MsgLen /\ 0 \in 0 .. StallLimit
    BY <1>1, ConnectionsAssumption DEF Calls
  <2> QED
    BY <1>1, <2>1 DEF Calls
<1>3. call' = [call EXCEPT ![t] = c]
  BY DEF Write, TypeOK
<1>4. c.op = call[t].op /\ c.to = call[t].to /\ c.todo = call[t].todo
      /\ c.left = call[t].left - n
  BY <1>1 DEF Calls
<1> HIDE DEF c
<1> WITNESS c
<1> QED
  BY <1>2, <1>3, <1>4 DEF Write, Go, Turns

\* send_message tries again or gives the line up, in the same call.
LEMMA Fails ==
  ASSUME TypeOK, NEW t \in Players, Fail(t)
  PROVE  /\ pc[t] = "writing"
         /\ UNCHANGED <<mutexes, table, open, peer, alive, calls, leaving, accepting>>
         /\ \E c : /\ \/ Turns(t, c, "writing") /\ UNCHANGED wire
                      \/ /\ Turns(t, c, "written")
                         /\ wire' = [d \in Connections |->
                                      [wire[d] EXCEPT !.half = @ \/ wire[d].line = t]]
                   /\ c.op = call[t].op /\ c.to = call[t].to /\ c.todo = call[t].todo
                   /\ c.left = call[t].left
<1> SUFFICES \E c : /\ \/ Turns(t, c, "writing") /\ UNCHANGED wire
                      \/ /\ Turns(t, c, "written")
                         /\ wire' = [d \in Connections |->
                                      [wire[d] EXCEPT !.half = @ \/ wire[d].line = t]]
                   /\ c.op = call[t].op /\ c.to = call[t].to /\ c.todo = call[t].todo
                   /\ c.left = call[t].left
  BY Zenon DEF Fail
<1>1. call[t] \in Calls /\ pc[t] = "writing"
  BY DEF TypeOK, Fail
<1>2. CASE Stall(t) <= StallLimit /\ call' = [call EXCEPT ![t].stalls = Stall(t)]
           /\ UNCHANGED <<pc, wire>>
  <2> DEFINE c == [call[t] EXCEPT !.stalls = Stall(t)]
  <2>1. c \in Calls
    BY <1>1, <1>2, ConnectionsAssumption DEF Calls, Stall
  <2>2. call' = [call EXCEPT ![t] = c] /\ pc' = [pc EXCEPT ![t] = "writing"]
    BY <1>1, <1>2 DEF TypeOK
  <2>3. c.op = call[t].op /\ c.to = call[t].to /\ c.todo = call[t].todo
        /\ c.left = call[t].left
    BY <1>1 DEF Calls
  <2> HIDE DEF c
  <2> WITNESS c
  <2> QED
    BY <1>2, <2>1, <2>2, <2>3 DEF Turns
<1>3. CASE /\ UNCHANGED call /\ Go(t, "written")
           /\ wire' = [d \in Connections |->
                        [wire[d] EXCEPT !.half = @ \/ wire[d].line = t]]
  <2>1. call' = [call EXCEPT ![t] = call[t]]
    BY <1>1, <1>3 DEF TypeOK
  <2> WITNESS call[t]
  <2> QED
    BY <1>1, <1>3, <2>1 DEF Go, Turns
<1> QED
  BY <1>2, <1>3 DEF Fail

\* What a thread does with the table: it goes on with its send, with a send to
\* somebody known or with nothing, or it has written its own entry.
TableStep(t) ==
  \/ /\ call[t].op # "mark" /\ UNCHANGED <<players, call, leaving>>
     /\ pc' = [pc EXCEPT ![t] = "found"]
  \/ /\ call[t].op # "mark" /\ UNCHANGED <<players, leaving>>
     /\ \E c : \/ /\ SendsNext(t, c)
                  /\ \A q \in {c.to} \cup c.todo : q \in call[t].todo \/ players[q] # "NULL"
               \/ GoesOn(t, c)
  \/ /\ call[t].op # "mark" /\ UNCHANGED leaving
     /\ players' = [players EXCEPT ![t] = "WAITING"]
     /\ \E c : SendsNext(t, c) /\ c.to = t /\ c.todo = {}
  \/ /\ call[t].op = "mark" /\ leaving' = leaving \ {t}
     /\ players' = [players EXCEPT ![t] = "DISCONNECTED"]
     /\ \E c : Turns(t, c, "ended") /\ c.op = "none"

\* What a call does at the table is one of these.
LEMMA TableUsed ==
  ASSUME TypeOK, NEW t \in Players, AtTable(t)
  PROVE  /\ pc[t] = "table" /\ players_mutex' = Nobody
         /\ UNCHANGED <<matches_mutex, send_mutex, players_count, socket_fd, kernel,
                        calls, accepting>>
         /\ TableStep(t)
<1>0. /\ pc[t] = "table" /\ players_mutex' = Nobody
      /\ UNCHANGED <<matches_mutex, send_mutex, players_count, socket_fd, kernel,
                     calls, accepting>>
  BY DEF AtTable, UnlockTable
<1>1. ASSUME call[t].op = "send", Go(t, "found"), UNCHANGED <<players, call, leaving>>
      PROVE  TableStep(t)
  BY <1>1 DEF Go, TableStep
<1>2. ASSUME call[t].op = "name", Return(t), UNCHANGED <<players, leaving>>
      PROVE  TableStep(t)
  BY <1>2, Returns DEF TableStep
<1>3. ASSUME call[t].op = "broadcast", UNCHANGED <<players, leaving>>,
             NEW heard \in SUBSET Players, \A q \in heard : players[q] # "NULL",
             Notify(t, heard) \/ Return(t)
      PROVE  TableStep(t)
  <2>1. CASE Notify(t, heard)
    <3>1. PICK c : SendsNext(t, c) /\ c.to \in heard /\ c.todo \subseteq heard
      BY <2>1, Notifies
    <3> QED
      BY <1>3, <3>1 DEF TableStep
  <2>2. CASE Return(t)
    BY <1>3, <2>2, Returns DEF TableStep
  <2> QED
    BY <1>3, <2>1, <2>2
<1>4. ASSUME call[t].op = "register", UNCHANGED leaving,
             players' = [players EXCEPT ![t] = "WAITING"], Begin(t, Call("send", t, {}))
      PROVE  TableStep(t)
  <2>1. /\ Call("send", t, {}) \in Calls /\ Call("send", t, {}).left = MsgLen
        /\ Call("send", t, {}).op = "send" /\ Call("send", t, {}).to = t
        /\ Call("send", t, {}).todo = {}
    BY NewCall DEF Ops
  <2> QED
    BY <1>4, <2>1 DEF Begin, Go, Turns, SendsNext, TableStep
<1>5. ASSUME call[t].op = "mark", leaving' = leaving \ {t},
             players' = [players EXCEPT ![t] = "DISCONNECTED"],
             call' = [call EXCEPT ![t] = Call("none", t, {})], Go(t, "ended")
      PROVE  TableStep(t)
  <2>1. Call("none", t, {}) \in Calls /\ Call("none", t, {}).op = "none"
    BY NewCall DEF Ops
  <2> QED
    BY <1>5, <2>1 DEF Go, Turns, TableStep
<1>6. TableStep(t)
  <2> DEFINE heard == {q \in Players \ {t, call[t].to} :
                         players[q] \notin {"NULL", "DISCONNECTED"}}
  <2>1. heard \in SUBSET Players /\ \A q \in heard : players[q] # "NULL"
    OBVIOUS
  <2>2. \/ call[t].op = "send" /\ Go(t, "found") /\ UNCHANGED <<players, call, leaving>>
        \/ call[t].op = "name" /\ Return(t) /\ UNCHANGED <<players, leaving>>
        \/ /\ call[t].op = "broadcast" /\ UNCHANGED <<players, leaving>>
           /\ Notify(t, heard) \/ Return(t)
        \/ /\ call[t].op = "register" /\ UNCHANGED leaving
           /\ players' = [players EXCEPT ![t] = "WAITING"]
           /\ Begin(t, Call("send", t, {}))
        \/ /\ call[t].op = "mark" /\ leaving' = leaving \ {t}
           /\ players' = [players EXCEPT ![t] = "DISCONNECTED"]
           /\ call' = [call EXCEPT ![t] = Call("none", t, {})]
           /\ Go(t, "ended")
    BY DEF AtTable
  <2> HIDE DEF heard
  <2> QED
    BY <1>1, <1>2, <1>3, <1>4, <1>5, <2>1, <2>2
<1> QED
  BY <1>0, <1>6

\* The fields of a call.
LEMMA Fields == \A c \in Calls : /\ c.to \in Players /\ c.todo \subseteq Players
                                 /\ c.op \in Ops /\ c.left \in 0 .. MsgLen
  BY DEF Calls

\* Closing a descriptor keeps the types.
LEMMA ClosingTyped ==
  ASSUME TypeOK, NEW d, close_connection(d)
  PROVE  /\ open' \in [Descriptors -> Connections \cup {Nobody}]
         /\ peer' \in [Connections -> {"absent", "open", "shut", "reset"}]
         /\ wire' \in [Connections -> Wire]
  BY DEF TypeOK, close_connection, Wire, Silent

\* Every step keeps the types.
LEMMA TypeStep == TypeOK /\ Counted /\ [Next]_vars => TypeOK'
<1> SUFFICES ASSUME TypeOK, Counted, [Next]_vars PROVE TypeOK'
  OBVIOUS
<1> USE Distinct, ConnectionsAssumption DEF vars, mutexes, table, kernel
<1>1. CASE Accept
  <2>1. PICK d \in Descriptors :
          /\ open' = [open EXCEPT ![d] = accepting.conn]
          /\ accepting' = [accepting EXCEPT !.pc = "players", !.fd = d]
    BY <1>1 DEF Accept
  <2>2. accepting.conn \in Connections
    BY <1>1 DEF Accept, TypeOK
  <2>3. accepting' \in [pc : {"accept", "players", "table", "spawn"},
                        conn : 0 .. MaxConnections, fd : Descriptors]
    BY <2>1 DEF TypeOK
  <2> QED
    BY <1>1, <2>1, <2>2, <2>3 DEF Accept, TypeOK
<1>2. CASE AcceptLock
  BY <1>2 DEF AcceptLock, TypeOK
<1>3. CASE Refuse
  <2>1. accepting' \in [pc : {"accept", "players", "table", "spawn"},
                        conn : 0 .. MaxConnections, fd : Descriptors]
    BY <1>3 DEF Refuse, Counted, TypeOK
  <2> QED
    BY <1>3, <2>1, ClosingTyped DEF Refuse, TypeOK
<1>4. CASE Admit
  <2>1. accepting' \in [pc : {"accept", "players", "table", "spawn"},
                        conn : 0 .. MaxConnections, fd : Descriptors]
    BY <1>4 DEF Admit, TypeOK
  <2>2. players_count' \in 0 .. MAX_PLAYERS
    BY <1>4 DEF Admit, TableFull, TypeOK
  <2> QED
    BY <1>4, <2>1, <2>2 DEF Admit, TypeOK, PlayerStates
<1>5. CASE Spawn
  <2>1. accepting' \in [pc : {"accept", "players", "table", "spawn"},
                        conn : 0 .. MaxConnections, fd : Descriptors]
    BY <1>5 DEF Spawn, Counted, TypeOK
  <2> QED
    BY <1>5, <2>1 DEF Spawn, TypeOK, Pcs
<1>6. ASSUME NEW t \in Players, Request(t) PROVE TypeOK'
  <2>1. CASE \E op \in {"register", "send"} : Begin(t, Call(op, t, {})) /\ UNCHANGED calls
    <3>1. PICK op \in {"register", "send"} : Begin(t, Call(op, t, {})) /\ UNCHANGED calls
      BY <2>1
    <3>2. Call(op, t, {}) \in Calls
      BY NewCall DEF Ops
    <3> QED
      BY <1>6, <3>1, <3>2 DEF Request, Begin, Go, TypeOK, Pcs
  <2>2. CASE /\ Go(t, "matches") /\ UNCHANGED call
             /\ calls' = [calls EXCEPT ![t] = MaxCalls]
    BY <1>6, <2>2 DEF Request, Go, TypeOK, Pcs
  <2> QED
    BY <1>6, <2>1, <2>2 DEF Request
<1>7. ASSUME NEW t \in Players, Leave(t) PROVE TypeOK'
  BY <1>7 DEF Leave, Go, TypeOK, Pcs
<1>8. ASSUME NEW t \in Players, LockMatches(t) PROVE TypeOK'
  BY <1>8 DEF LockMatches, Go, TypeOK, Pcs
<1>9. ASSUME NEW t \in Players, LockPlayers(t) PROVE TypeOK'
  BY <1>9 DEF LockPlayers, Go, TypeOK, Pcs
<1>10. ASSUME NEW t \in Players, LockSend(t) PROVE TypeOK'
  BY <1>10 DEF LockSend, Go, TypeOK, Pcs
<1>11. ASSUME NEW t \in Players, HandlerCalls(t) PROVE TypeOK'
  <2>1. PICK q \in Players, op \in {"send", "name", "broadcast"} : Begin(t, Call(op, q, {}))
    BY <1>11 DEF HandlerCalls
  <2>2. Call(op, q, {}) \in Calls
    BY NewCall DEF Ops
  <2>3. calls' \in [Players -> 0 .. MaxCalls]
    BY <1>11 DEF HandlerCalls, TypeOK
  <2> QED
    BY <1>11, <2>1, <2>2, <2>3 DEF HandlerCalls, Begin, Go, TypeOK, Pcs
<1>12. ASSUME NEW t \in Players, UnlockMatches(t) PROVE TypeOK'
  BY <1>12 DEF UnlockMatches, AfterHandler, Go, TypeOK, Pcs
<1>13. ASSUME NEW t \in Players, AtTable(t) PROVE TypeOK'
  <2>1. pc' \in [Players -> Pcs] /\ call' \in [Players -> Calls]
    BY <1>13, TableUsed DEF TableStep, SendsNext, GoesOn, Turns, TypeOK, Pcs
  <2>2. TableStep(t)
    BY <1>13, TableUsed
  <2>3. players' \in [Players -> PlayerStates]
    BY <2>2 DEF TableStep, TypeOK, PlayerStates
  <2>4. leaving' \subseteq Players
    BY <2>2 DEF TableStep, TypeOK
  <2> QED
    BY <1>13, <2>1, <2>3, <2>4, TableUsed DEF TypeOK
<1>14. ASSUME NEW t \in Players, LookAtState(t) PROVE TypeOK'
  <2>1. pc' \in [Players -> Pcs] /\ call' \in [Players -> Calls]
    <3>1. CASE Return(t)
      BY <3>1, Returns DEF SendsNext, GoesOn, Turns, TypeOK, Pcs
    <3>2. CASE Go(t, "send") /\ UNCHANGED call
      BY <3>2 DEF Go, TypeOK, Pcs
    <3> QED
      BY <1>14, <3>1, <3>2 DEF LookAtState
  <2> QED
    BY <1>14, <2>1 DEF LookAtState, TypeOK
<1>15. ASSUME NEW t \in Players, NEW n \in 1 .. MsgLen, Write(t, n) PROVE TypeOK'
  <2>1. pc' \in [Players -> Pcs] /\ call' \in [Players -> Calls]
    <3>1. PICK c : Turns(t, c, IF n = call[t].left THEN "written" ELSE "writing")
      BY <1>15, Writes
    <3> QED
      BY <3>1 DEF Turns, TypeOK, Pcs
  <2>2. wire' \in [Connections -> Wire]
    <3> DEFINE c == Target(t)
               w == wire[c]
               v == [line |-> IF n = call[t].left THEN Nobody ELSE t,
                     stray |-> w.stray \/ c # call[t].to,
                     half |-> w.half /\ w.line # Nobody,
                     torn |-> \/ w.line # (IF call[t].left = MsgLen THEN Nobody ELSE t)
                              \/ w.torn /\ call[t].left # MsgLen]
    <3>1. wire' = [wire EXCEPT ![c] = v]
      BY <1>15 DEF Write
    <3>2. v \in Wire
      BY DEF Wire
    <3> HIDE DEF v, c
    <3> QED
      BY <3>1, <3>2 DEF TypeOK
  <2>3. UNCHANGED <<mutexes, table, open, peer, alive, calls, leaving, accepting>>
    BY <1>15, Writes
  <2> QED
    BY <2>1, <2>2, <2>3 DEF TypeOK
<1>16. ASSUME NEW t \in Players, Fail(t) PROVE TypeOK'
  <2>1. pc' \in [Players -> Pcs] /\ call' \in [Players -> Calls]
    <3>1. PICK c : Turns(t, c, "writing") \/ Turns(t, c, "written")
      BY <1>16, Fails
    <3> QED
      BY <3>1 DEF Turns, TypeOK, Pcs
  <2>2. wire' \in [Connections -> Wire]
    <3>1. \/ UNCHANGED wire
          \/ wire' = [d \in Connections |->
                        [wire[d] EXCEPT !.half = @ \/ wire[d].line = t]]
      BY <1>16, Fails
    <3>2. ASSUME NEW d \in Connections
          PROVE  [wire[d] EXCEPT !.half = @ \/ wire[d].line = t] \in Wire
      <4> DEFINE b == wire[d].half \/ wire[d].line = t
      <4>1. b \in BOOLEAN /\ wire[d] \in Wire
        BY DEF TypeOK
      <4> HIDE DEF b
      <4>2. [wire[d] EXCEPT !.half = b] \in Wire
        BY <4>1 DEF Wire
      <4> QED
        BY <4>2 DEF b
    <3> QED
      BY <3>1, <3>2 DEF TypeOK
  <2> QED
    BY <1>16, <2>1, <2>2, Fails DEF TypeOK
<1>17. ASSUME NEW t \in Players, BrokenPipe(t) PROVE TypeOK'
  BY <1>17 DEF BrokenPipe, TypeOK
<1>18. ASSUME NEW t \in Players, UnlockSend(t) PROVE TypeOK'
  <2>1. pc' \in [Players -> Pcs] /\ call' \in [Players -> Calls]
    BY <1>18, Returns DEF UnlockSend, SendsNext, GoesOn, Turns, TypeOK, Pcs
  <2> QED
    BY <1>18, <2>1 DEF UnlockSend, TypeOK
<1>19. ASSUME NEW t \in Players, Close(t) PROVE TypeOK'
  <2>1. Call("mark", t, {}) \in Calls
    BY NewCall DEF Ops
  <2> QED
    BY <1>19, <2>1, ClosingTyped DEF Close, Begin, Go, TypeOK, Pcs
<1>20. ASSUME NEW c \in Connections, PeerLeaves(c) PROVE TypeOK'
  BY <1>20 DEF PeerLeaves, TypeOK
<1>21. CASE UNCHANGED vars
  BY <1>21 DEF TypeOK
<1> QED
  BY <1>1, <1>2, <1>3, <1>4, <1>5, <1>6, <1>7, <1>8, <1>9, <1>10, <1>11, <1>12, <1>13,
     <1>14, <1>15, <1>16, <1>17, <1>18, <1>19, <1>20, <1>21
     DEF Next, Quiet, Acceptor, Takes, Runs, Sends

\* A thread that leaves table, send or the receive loop keeps no mutex it should
\* not: whatever it had under it is released.
LEMMA MutexTurn ==
  ASSUME TypeOK, MutexesHeld, NEW t \in Players, NEW c, NEW where, Turns(t, c, where),
         c.op # "mark", UNCHANGED <<matches_mutex, accepting>>,
         matches_mutex = t => where \in Handling,
         players_mutex' = Nobody \/ (UNCHANGED players_mutex /\ players_mutex # t),
         where \notin {"writing", "written"},
         \A q \in Players : send_mutex'[q] = IF send_mutex[q] = t THEN Nobody ELSE send_mutex[q]
  PROVE  MutexesHeld'
<1> USE Distinct DEF Turns, TypeOK
<1>1. \A u \in Players : u # t => pc'[u] = pc[u] /\ call'[u] = call[u]
  OBVIOUS
<1>2. pc'[t] = where /\ call'[t] = c
  OBVIOUS
<1>3. \A u, q \in Players :
        send_mutex'[q] = u <=> pc'[u] \in {"writing", "written"} /\ call'[u].to = q
  BY <1>1, <1>2 DEF MutexesHeld
<1>4. \A u \in Players : call'[u].op = "mark" =>
                          pc'[u] \in {"players", "table"} /\ matches_mutex' # u
  BY <1>1, <1>2 DEF MutexesHeld
<1>5. \A u \in Players : matches_mutex' = u => pc'[u] \in Handling
  BY <1>1, <1>2 DEF MutexesHeld
<1>6. /\ \A u \in Players : players_mutex' = u => pc'[u] = "table"
      /\ players_mutex' = Main => accepting'.pc = "table"
  BY <1>1, <1>2 DEF MutexesHeld
<1> QED
  BY <1>3, <1>4, <1>5, <1>6 DEF MutexesHeld

\* Writing changes neither where a mutex is held nor for whom.
LEMMA MutexWrite ==
  ASSUME TypeOK, MutexesHeld, NEW t \in Players, NEW c,
         NEW where \in {"writing", "written"}, Turns(t, c, where),
         pc[t] = "writing", c.op = call[t].op, c.to = call[t].to,
         UNCHANGED <<mutexes, accepting>>
  PROVE  MutexesHeld'
<1> USE Distinct DEF Turns, TypeOK, mutexes
<1>1. \A u \in Players : u # t => pc'[u] = pc[u] /\ call'[u] = call[u]
  OBVIOUS
<1>2. pc'[t] = where /\ call'[t] = c
  OBVIOUS
<1> QED
  BY <1>1, <1>2 DEF MutexesHeld, Handling, Calling

\* Every step keeps each mutex with a thread that will release it.
LEMMA MutexStep == TypeOK /\ Counted /\ MutexesHeld /\ [Next]_vars => MutexesHeld'
<1> SUFFICES ASSUME TypeOK, Counted, MutexesHeld, [Next]_vars PROVE MutexesHeld'
  OBVIOUS
<1> USE Distinct DEF TypeOK, MutexesHeld, Handling, Calling, vars, mutexes, table, kernel
<1>1. CASE Accept
  BY <1>1 DEF Accept
<1>2. CASE AcceptLock
  BY <1>2 DEF AcceptLock
<1>3. CASE Refuse
  BY <1>3 DEF Refuse
<1>4. CASE Admit
  BY <1>4 DEF Admit
<1>5. CASE Spawn
  <2>1. \A u \in Players : u = accepting.conn => pc[u] = "none"
    BY DEF Counted
  <2>2. \A u \in Players : u # accepting.conn => pc'[u] = pc[u]
    BY <1>5 DEF Spawn
  <2>3. \A u \in Players : u = accepting.conn => pc'[u] = "loop"
    BY <1>5 DEF Spawn
  <2> QED
    BY <1>5, <2>1, <2>2, <2>3 DEF Spawn
<1>6. ASSUME NEW t \in Players, Request(t) PROVE MutexesHeld'
  BY <1>6 DEF Request, Begin, Call, Go
<1>7. ASSUME NEW t \in Players, Leave(t) PROVE MutexesHeld'
  BY <1>7 DEF Leave, Go
<1>8. ASSUME NEW t \in Players, LockMatches(t) PROVE MutexesHeld'
  BY <1>8 DEF LockMatches, Go
<1>9. ASSUME NEW t \in Players, LockPlayers(t) PROVE MutexesHeld'
  BY <1>9 DEF LockPlayers, Go
<1>10. ASSUME NEW t \in Players, LockSend(t) PROVE MutexesHeld'
  <2>1. call[t].to \in Players
    BY Fields
  <2> QED
    BY <1>10, <2>1 DEF LockSend, SendFree, Go
<1>11. ASSUME NEW t \in Players, HandlerCalls(t) PROVE MutexesHeld'
  BY <1>11 DEF HandlerCalls, Begin, Call, Go
<1>12. ASSUME NEW t \in Players, UnlockMatches(t) PROVE MutexesHeld'
  BY <1>12 DEF UnlockMatches, AfterHandler, Go
<1>13. ASSUME NEW t \in Players, AtTable(t) PROVE MutexesHeld'
  <2>1. /\ pc[t] = "table" /\ players_mutex' = Nobody
        /\ UNCHANGED <<matches_mutex, send_mutex, accepting>>
    BY <1>13, TableUsed
  <2>2. \E c, where : /\ Turns(t, c, where) /\ c.op # "mark"
                      /\ where \in {"found", "players", "inside", "loop", "ended"}
                      /\ matches_mutex = t => where \in Handling
    <3>1. TableStep(t)
      BY <1>13, TableUsed
    <3>2. CASE call[t].op # "mark" /\ UNCHANGED call /\ pc' = [pc EXCEPT ![t] = "found"]
      <4>1. Turns(t, call[t], "found")
        BY <3>2 DEF Turns
      <4> QED
        BY <3>2, <4>1
    <3>3. ASSUME NEW c, SendsNext(t, c) \/ GoesOn(t, c)
          PROVE  \E d, where : /\ Turns(t, d, where) /\ d.op # "mark"
                               /\ where \in {"found", "players", "inside", "loop", "ended"}
                               /\ matches_mutex = t => where \in Handling
      BY <3>3 DEF SendsNext, GoesOn
    <3>4. ASSUME NEW c, call[t].op = "mark", Turns(t, c, "ended"), c.op = "none"
          PROVE  \E d, where : /\ Turns(t, d, where) /\ d.op # "mark"
                               /\ where \in {"found", "players", "inside", "loop", "ended"}
                               /\ matches_mutex = t => where \in Handling
      BY <3>4
    <3> QED
      BY <3>1, <3>2, <3>3, <3>4 DEF TableStep
  <2>3. PICK c, where : /\ Turns(t, c, where) /\ c.op # "mark"
                        /\ where \in {"found", "players", "inside", "loop", "ended"}
                        /\ matches_mutex = t => where \in Handling
    BY <2>2
  <2> QED
    BY <2>1, <2>3, MutexTurn
<1>14. ASSUME NEW t \in Players, LookAtState(t) PROVE MutexesHeld'
  BY <1>14, Returns DEF LookAtState, Go, Turns, SendsNext, GoesOn
<1>15. ASSUME NEW t \in Players, NEW n \in 1 .. MsgLen, Write(t, n) PROVE MutexesHeld'
  BY <1>15, Writes, MutexWrite
<1>16. ASSUME NEW t \in Players, Fail(t) PROVE MutexesHeld'
  BY <1>16, Fails, MutexWrite
<1>17. ASSUME NEW t \in Players, BrokenPipe(t) PROVE MutexesHeld'
  BY <1>17 DEF BrokenPipe
<1>18. ASSUME NEW t \in Players, UnlockSend(t) PROVE MutexesHeld'
  <2>1. PICK c : SendsNext(t, c) \/ GoesOn(t, c)
    BY <1>18, Returns DEF UnlockSend
  <2>2. /\ pc[t] = "written" /\ UNCHANGED <<matches_mutex, players_mutex, accepting>>
        /\ send_mutex' = [send_mutex EXCEPT ![call[t].to] = Nobody]
    BY <1>18 DEF UnlockSend
  <2>3. \A q \in Players : send_mutex'[q] = IF send_mutex[q] = t THEN Nobody ELSE send_mutex[q]
    BY <2>2
  <2>4. players_mutex # t
    BY <2>2
  <2>5. PICK where : /\ Turns(t, c, where) /\ c.op # "mark"
                     /\ where \in {"players", "inside", "loop"}
                     /\ matches_mutex = t => where \in Handling
    BY <2>1 DEF SendsNext, GoesOn
  <2> QED
    BY <2>2, <2>3, <2>4, <2>5, MutexTurn
<1>19. ASSUME NEW t \in Players, Close(t) PROVE MutexesHeld'
  BY <1>19 DEF Close, Begin, Call, Go
<1>20. ASSUME NEW c \in Connections, PeerLeaves(c) PROVE MutexesHeld'
  BY <1>20 DEF PeerLeaves
<1>21. CASE UNCHANGED vars
  BY <1>21
<1> QED
  BY <1>1, <1>2, <1>3, <1>4, <1>5, <1>6, <1>7, <1>8, <1>9, <1>10, <1>11, <1>12, <1>13,
     <1>14, <1>15, <1>16, <1>17, <1>18, <1>19, <1>20, <1>21
     DEF Next, Quiet, Acceptor, Takes, Runs, Sends

\* A thread that runs belongs to a player who was counted.
LEMMA RunningIsCounted ==
  ASSUME TypeOK, Counted, NEW t \in Players, pc[t] # "none"
  PROVE  t < players_count
<1>1. t \in Nat /\ t < MAX_PLAYERS /\ MAX_PLAYERS \in Nat /\ accepting.conn \in Nat
  BY Distinct, ConnectionsAssumption DEF TypeOK
<1>2. t < accepting.conn
  BY DEF Counted
<1> QED
  BY <1>1, <1>2 DEF Counted

\* A thread goes on with a call that concerns counted players only.
LEMMA CountTurn ==
  ASSUME TypeOK, Counted, NEW t \in Players, NEW c, NEW where, Turns(t, c, where),
         pc[t] # "none", UNCHANGED <<accepting, players_count>>,
         \A p \in Players : players'[p] # "NULL" => players[p] # "NULL" \/ p = t,
         where \in Calling => \A q \in {c.to} \cup c.todo : q < players_count
  PROVE  Counted'
<1> USE DEF Turns, TypeOK
<1>1. \A u \in Players : u # t => pc'[u] = pc[u] /\ call'[u] = call[u]
  OBVIOUS
<1>2. pc'[t] = where /\ call'[t] = c
  OBVIOUS
<1>3. t < players_count
  BY RunningIsCounted
<1>4. \A p \in Players : pc'[p] # "none" => p < accepting'.conn
  BY <1>1 DEF Counted
<1>5. \A p \in Players : players'[p] # "NULL" => p < players_count'
  BY <1>3 DEF Counted
<1>6. \A u \in Players : pc'[u] \in Calling =>
        call'[u].to < players_count' /\ \A q \in call'[u].todo : q < players_count'
  BY <1>1, <1>2 DEF Counted
<1> QED
  BY <1>4, <1>5, <1>6 DEF Counted

\* A call that returns notifies counted players only.
LEMMA CountReturn ==
  ASSUME TypeOK, Counted, NEW t \in Players, NEW c,
         \/ SendsNext(t, c) /\ c.to \in call[t].todo /\ c.todo \subseteq call[t].todo
         \/ GoesOn(t, c),
         pc[t] # "none", UNCHANGED <<accepting, players_count, players>>,
         \A q \in call[t].todo : q < players_count
  PROVE  Counted'
<1>1. CASE SendsNext(t, c) /\ c.to \in call[t].todo /\ c.todo \subseteq call[t].todo
  <2>1. \A q \in {c.to} \cup c.todo : q < players_count
    BY <1>1
  <2> QED
    BY <1>1, <2>1, CountTurn DEF SendsNext
<1>2. CASE GoesOn(t, c)
  BY <1>2, CountTurn DEF GoesOn, Calling
<1> QED
  BY <1>1, <1>2

\* Every step keeps the counts of connections and players together.
LEMMA CountStep == TypeOK /\ Counted /\ [Next]_vars => Counted'
<1> SUFFICES ASSUME TypeOK, Counted, [Next]_vars PROVE Counted'
  OBVIOUS
<1> USE Distinct, ConnectionsAssumption DEF TypeOK, Counted, Calling, vars, mutexes, table, kernel
<1>1. CASE Accept
  BY <1>1 DEF Accept
<1>2. CASE AcceptLock
  BY <1>2 DEF AcceptLock
<1>3. CASE Refuse
  <2>1. /\ accepting.pc = "table" /\ players_count >= MAX_PLAYERS
        /\ UNCHANGED <<players, players_count, pc, call>>
        /\ accepting' = [pc |-> "accept", conn |-> accepting.conn + 1, fd |-> 0]
    BY <1>3 DEF Refuse, TableFull
  <2>2. accepting'.pc = "accept" /\ accepting'.conn = accepting.conn + 1
    BY <2>1
  <2>3. players_count = MAX_PLAYERS /\ accepting.conn >= MAX_PLAYERS
    BY <2>1
  <2> QED
    BY <2>1, <2>2, <2>3
<1>4. CASE Admit
  <2>5. accepting.pc = "table" /\ ~TableFull
    BY <1>4 DEF Admit
  <2>1. /\ accepting.pc = "table" /\ players_count < MAX_PLAYERS
        /\ players_count' = players_count + 1
        /\ players' = [players EXCEPT ![players_count] = "CONNECTED"]
        /\ UNCHANGED <<pc, call>>
        /\ accepting' = [accepting EXCEPT !.pc = "spawn"]
    <3>1. players_count < MAX_PLAYERS
      BY <2>5 DEF TableFull
    <3> QED
      BY <1>4, <2>5, <3>1 DEF Admit
  <2>0. accepting'.pc = "spawn" /\ accepting'.conn = accepting.conn
    BY <2>1
  <2>2. players_count = accepting.conn /\ accepting.conn < MaxConnections
    BY <2>1
  <2>3. \A p \in Players : players'[p] # "NULL" => p < players_count'
    BY <2>1
  <2>4. \A t \in Players : pc'[t] \in Calling =>
          call'[t].to < players_count' /\ \A q \in call'[t].todo : q < players_count'
    <3> SUFFICES ASSUME NEW t \in Players, pc'[t] \in Calling
                 PROVE  /\ call'[t].to < players_count'
                        /\ \A q \in call'[t].todo : q < players_count'
      OBVIOUS
    <3>1. /\ call[t].to < players_count /\ call[t].to \in Nat
          /\ \A q \in call[t].todo : q < players_count /\ q \in Nat
      BY <2>1, Fields
    <3> QED
      BY <2>1, <3>1
  <2> QED
    BY <2>0, <2>1, <2>2, <2>3, <2>4
<1>5. CASE Spawn
  BY <1>5 DEF Spawn
<1>6. ASSUME NEW t \in Players, Request(t) PROVE Counted'
  BY <1>6, RunningIsCounted DEF Request, Begin, Call, Go
<1>7. ASSUME NEW t \in Players, Leave(t) PROVE Counted'
  BY <1>7 DEF Leave, Go
<1>8. ASSUME NEW t \in Players, LockMatches(t) PROVE Counted'
  BY <1>8 DEF LockMatches, Go
<1>9. ASSUME NEW t \in Players, LockPlayers(t) PROVE Counted'
  BY <1>9 DEF LockPlayers, Go
<1>10. ASSUME NEW t \in Players, LockSend(t) PROVE Counted'
  BY <1>10 DEF LockSend, Go
<1>11. ASSUME NEW t \in Players, HandlerCalls(t) PROVE Counted'
  BY <1>11 DEF HandlerCalls, Begin, Call, Go
<1>12. ASSUME NEW t \in Players, UnlockMatches(t) PROVE Counted'
  BY <1>12 DEF UnlockMatches, AfterHandler, Go
<1>13. ASSUME NEW t \in Players, AtTable(t) PROVE Counted'
  <2>1. pc[t] = "table" /\ UNCHANGED <<accepting, players_count>>
    BY <1>13, TableUsed
  <2>2. \A q \in {call[t].to} \cup call[t].todo : q < players_count
    BY <2>1
  <2>3. TableStep(t)
    BY <1>13, TableUsed
  <2>4. \A p \in Players : players'[p] # "NULL" => players[p] # "NULL" \/ p = t
    BY <2>3 DEF TableStep
  <2>5. ASSUME NEW c, NEW where, Turns(t, c, where),
               where \in Calling => \A q \in {c.to} \cup c.todo : q < players_count
        PROVE  Counted'
    BY <2>1, <2>4, <2>5, CountTurn
  <2>6. CASE UNCHANGED call /\ pc' = [pc EXCEPT ![t] = "found"]
    <3>1. Turns(t, call[t], "found")
      BY <2>6 DEF Turns
    <3> QED
      BY <2>2, <2>5, <3>1
  <2>7. ASSUME NEW c, SendsNext(t, c),
               \A q \in {c.to} \cup c.todo : q \in call[t].todo \/ players[q] # "NULL"
        PROVE  Counted'
    <3>1. c.to \in Players /\ c.todo \subseteq Players
      BY <2>7, Fields DEF SendsNext, Turns
    <3>2. \A q \in {c.to} \cup c.todo : q < players_count
      BY <2>2, <2>7, <3>1
    <3> QED
      BY <2>5, <2>7, <3>2 DEF SendsNext
  <2>8. ASSUME NEW c, SendsNext(t, c), c.to = t, c.todo = {} PROVE Counted'
    <3>1. t < players_count
      BY <2>1, RunningIsCounted
    <3> QED
      BY <2>5, <2>8, <3>1 DEF SendsNext
  <2>9. ASSUME NEW c, GoesOn(t, c) PROVE Counted'
    BY <2>5, <2>9 DEF GoesOn
  <2>10. ASSUME NEW c, Turns(t, c, "ended") PROVE Counted'
    BY <2>5, <2>10
  <2> QED
    BY <2>3, <2>6, <2>7, <2>8, <2>9, <2>10 DEF TableStep
<1>14. ASSUME NEW t \in Players, LookAtState(t) PROVE Counted'
  <2>1. pc[t] = "found" /\ UNCHANGED <<accepting, players_count, players>>
    BY <1>14 DEF LookAtState
  <2>2. \A q \in {call[t].to} \cup call[t].todo : q < players_count
    BY <2>1
  <2>3. CASE Return(t)
    <3>1. PICK c : \/ SendsNext(t, c) /\ c.to \in call[t].todo /\ c.todo \subseteq call[t].todo
                   \/ GoesOn(t, c)
      BY <2>3, Returns
    <3> QED
      BY <2>1, <2>2, <3>1, CountReturn
  <2>4. CASE Go(t, "send") /\ UNCHANGED call
    <3>1. Turns(t, call[t], "send")
      BY <2>4 DEF Go, Turns
    <3> QED
      BY <2>1, <2>2, <3>1, CountTurn
  <2> QED
    BY <1>14, <2>3, <2>4 DEF LookAtState
<1>15. ASSUME NEW t \in Players, NEW n \in 1 .. MsgLen, Write(t, n) PROVE Counted'
  <2>1. PICK c, where : Turns(t, c, where) /\ c.to = call[t].to /\ c.todo = call[t].todo
    BY <1>15, Writes
  <2>2. pc[t] = "writing" /\ UNCHANGED <<accepting, players_count, players>>
    BY <1>15, Writes
  <2>3. \A q \in {c.to} \cup c.todo : q < players_count
    BY <2>1, <2>2
  <2> QED
    BY <2>1, <2>2, <2>3, CountTurn
<1>16. ASSUME NEW t \in Players, Fail(t) PROVE Counted'
  <2>1. PICK c, where : Turns(t, c, where) /\ c.to = call[t].to /\ c.todo = call[t].todo
    BY <1>16, Fails
  <2>2. pc[t] = "writing" /\ UNCHANGED <<accepting, players_count, players>>
    BY <1>16, Fails
  <2>3. \A q \in {c.to} \cup c.todo : q < players_count
    BY <2>1, <2>2
  <2> QED
    BY <2>1, <2>2, <2>3, CountTurn
<1>17. ASSUME NEW t \in Players, BrokenPipe(t) PROVE Counted'
  BY <1>17 DEF BrokenPipe
<1>18. ASSUME NEW t \in Players, UnlockSend(t) PROVE Counted'
  <2>1. pc[t] = "written" /\ UNCHANGED <<accepting, players_count, players>>
    BY <1>18 DEF UnlockSend
  <2>2. \A q \in call[t].todo : q < players_count
    BY <2>1
  <2>3. PICK c : \/ SendsNext(t, c) /\ c.to \in call[t].todo /\ c.todo \subseteq call[t].todo
                 \/ GoesOn(t, c)
    BY <1>18, Returns DEF UnlockSend
  <2> QED
    BY <2>1, <2>2, <2>3, CountReturn
<1>19. ASSUME NEW t \in Players, Close(t) PROVE Counted'
  BY <1>19, RunningIsCounted DEF Close, Begin, Call, Go
<1>20. ASSUME NEW c \in Connections, PeerLeaves(c) PROVE Counted'
  BY <1>20 DEF PeerLeaves
<1>21. CASE UNCHANGED vars
  BY <1>21
<1> QED
  BY <1>1, <1>2, <1>3, <1>4, <1>5, <1>6, <1>7, <1>8, <1>9, <1>10, <1>11, <1>12, <1>13,
     <1>14, <1>15, <1>16, <1>17, <1>18, <1>19, <1>20, <1>21
     DEF Next, Quiet, Acceptor, Takes, Runs, Sends

\* A thread that is served goes on with the same descriptor, or is marked.
LEMMA DescriptorTurn ==
  ASSUME TypeOK, MutexesHeld, DescriptorsHeld, NEW t \in Players, NEW c, NEW where,
         Turns(t, c, where),
         \/ pc[t] \in {"table", "found", "writing", "written"} /\ call[t].op # "mark"
         \/ where = "ended",
         UNCHANGED <<socket_fd, open, accepting>>
  PROVE  DescriptorsHeld'
<1> USE DEF Turns, TypeOK
<1>1. open[socket_fd[t]] = t \/ pc'[t] = "ended"
  BY DEF DescriptorsHeld, DescriptorIsOwn
<1>2. \A u \in Players : u # t => pc'[u] = pc[u] /\ call'[u] = call[u]
  OBVIOUS
<1>3. \A p \in Players : pc'[p] \notin {"none", "ended"} /\ call'[p].op # "mark"
                           => open'[socket_fd'[p]] = p
  BY <1>1, <1>2 DEF DescriptorsHeld, DescriptorIsOwn
<1> QED
  BY <1>3 DEF DescriptorsHeld, DescriptorIsOwn

\* Every step keeps the descriptors of those who are served theirs.
LEMMA DescriptorStep ==
  TypeOK /\ Counted /\ MutexesHeld /\ DescriptorsHeld /\ [Next]_vars => DescriptorsHeld'
<1> SUFFICES ASSUME TypeOK, Counted, MutexesHeld, DescriptorsHeld, [Next]_vars
             PROVE  DescriptorsHeld'
  OBVIOUS
<1> USE Fields, Distinct, ConnectionsAssumption
    DEF TypeOK, Counted, MutexesHeld, DescriptorsHeld, DescriptorIsOwn,
        vars, mutexes, table, kernel
<1>1. CASE Accept
  BY <1>1 DEF Accept, LowestFree
<1>2. CASE AcceptLock
  BY <1>2 DEF AcceptLock
<1>3. CASE Refuse
  BY <1>3 DEF Refuse, close_connection, TableFull
<1>4. CASE Admit
  BY <1>4 DEF Admit, TableFull
<1>5. CASE Spawn
  BY <1>5 DEF Spawn
<1>6. ASSUME NEW t \in Players, Request(t) PROVE DescriptorsHeld'
  BY <1>6 DEF Request, Begin, Call, Go
<1>7. ASSUME NEW t \in Players, Leave(t) PROVE DescriptorsHeld'
  BY <1>7 DEF Leave, Go
<1>8. ASSUME NEW t \in Players, LockMatches(t) PROVE DescriptorsHeld'
  BY <1>8 DEF LockMatches, Go
<1>9. ASSUME NEW t \in Players, LockPlayers(t) PROVE DescriptorsHeld'
  BY <1>9 DEF LockPlayers, Go
<1>10. ASSUME NEW t \in Players, LockSend(t) PROVE DescriptorsHeld'
  BY <1>10 DEF LockSend, SendFree, Go
<1>11. ASSUME NEW t \in Players, HandlerCalls(t) PROVE DescriptorsHeld'
  BY <1>11 DEF HandlerCalls, Begin, Call, Go
<1>12. ASSUME NEW t \in Players, UnlockMatches(t) PROVE DescriptorsHeld'
  BY <1>12 DEF UnlockMatches, AfterHandler, Go
<1>13. ASSUME NEW t \in Players, AtTable(t) PROVE DescriptorsHeld'
  <2>1. /\ pc[t] = "table" /\ TableStep(t) /\ UNCHANGED <<socket_fd, players_count>>
        /\ UNCHANGED <<open, accepting>>
    BY <1>13, TableUsed
  <2>2. ASSUME NEW c, NEW where, Turns(t, c, where), call[t].op # "mark" \/ where = "ended"
        PROVE  DescriptorsHeld'
    BY <2>1, <2>2, DescriptorTurn
  <2>3. CASE UNCHANGED call /\ pc' = [pc EXCEPT ![t] = "found"] /\ call[t].op # "mark"
    <3>1. Turns(t, call[t], "found")
      BY <2>3 DEF Turns
    <3> QED
      BY <2>2, <2>3, <3>1
  <2>4. ASSUME NEW c, SendsNext(t, c) \/ GoesOn(t, c), call[t].op # "mark"
        PROVE  DescriptorsHeld'
    BY <2>2, <2>4 DEF SendsNext, GoesOn
  <2>5. ASSUME NEW c, Turns(t, c, "ended") PROVE DescriptorsHeld'
    BY <2>2, <2>5
  <2> QED
    BY <2>1, <2>3, <2>4, <2>5 DEF TableStep
<1>14. ASSUME NEW t \in Players, LookAtState(t) PROVE DescriptorsHeld'
  BY <1>14, Returns DEF LookAtState, Go, Turns, SendsNext, GoesOn
<1>15. ASSUME NEW t \in Players, NEW n \in 1 .. MsgLen, Write(t, n) PROVE DescriptorsHeld'
  <2>1. PICK c, where : Turns(t, c, where) /\ c.op = call[t].op
                        /\ where \in {"writing", "written"}
    BY <1>15, Writes
  <2>2. /\ pc[t] = "writing"
        /\ UNCHANGED <<mutexes, table, open, peer, alive, calls, leaving, accepting>>
    BY <1>15, Writes
  <2> QED
    BY <2>1, <2>2, DescriptorTurn
<1>16. ASSUME NEW t \in Players, Fail(t) PROVE DescriptorsHeld'
  <2>1. PICK c, where : Turns(t, c, where) /\ c.op = call[t].op
                        /\ where \in {"writing", "written"}
    BY <1>16, Fails
  <2>2. /\ pc[t] = "writing"
        /\ UNCHANGED <<mutexes, table, open, peer, alive, calls, leaving, accepting>>
    BY <1>16, Fails
  <2> QED
    BY <2>1, <2>2, DescriptorTurn
<1>17. ASSUME NEW t \in Players, BrokenPipe(t) PROVE DescriptorsHeld'
  BY <1>17 DEF BrokenPipe
<1>18. ASSUME NEW t \in Players, UnlockSend(t) PROVE DescriptorsHeld'
  <2>1. PICK c, where : Turns(t, c, where) /\ where \in {"players", "inside", "loop"}
    BY <1>18, Returns DEF UnlockSend, SendsNext, GoesOn
  <2>2. pc[t] = "written" /\ UNCHANGED <<table, open, accepting>>
    BY <1>18 DEF UnlockSend
  <2> QED
    BY <2>1, <2>2, DescriptorTurn
<1>19. ASSUME NEW t \in Players, Close(t) PROVE DescriptorsHeld'
  <2>1. /\ pc[t] = "close" /\ UNCHANGED <<table, accepting>>
        /\ open' = [open EXCEPT ![socket_fd[t]] = Nobody]
        /\ call'[t].op = "mark"
        /\ \A p \in Players : p # t => pc'[p] = pc[p] /\ call'[p] = call[p]
    BY <1>19 DEF Close, close_connection, Begin, Call, Go
  <2>2. open[socket_fd[t]] = t /\ t < accepting.conn /\ t < players_count
    BY <2>1, RunningIsCounted
  <2>3. \A d \in Descriptors : open[d] # t => open'[d] = open[d]
    BY <2>1, <2>2
  <2>4. \A p \in Players : pc'[p] \notin {"none", "ended"} /\ call'[p].op # "mark"
                             => open'[socket_fd'[p]] = p
    BY <2>1, <2>3
  <2>5. /\ accepting.pc \in {"players", "table"} => open'[accepting.fd] = accepting.conn
        /\ accepting.pc = "spawn" => open'[socket_fd[accepting.conn]] = accepting.conn
    BY <2>2, <2>3
  <2> QED
    BY <2>1, <2>4, <2>5
<1>20. ASSUME NEW c \in Connections, PeerLeaves(c) PROVE DescriptorsHeld'
  BY <1>20 DEF PeerLeaves
<1>21. CASE UNCHANGED vars
  BY <1>21
<1> QED
  BY <1>1, <1>2, <1>3, <1>4, <1>5, <1>6, <1>7, <1>8, <1>9, <1>10, <1>11, <1>12, <1>13,
     <1>14, <1>15, <1>16, <1>17, <1>18, <1>19, <1>20, <1>21
     DEF Next, Quiet, Acceptor, Takes, Runs, Sends

\* A thread that is not writing, before or after, leaves the lines as they are.
LEMMA LineTurn ==
  ASSUME TypeOK, LinesHeld, NEW t \in Players, NEW c, NEW where,
         Turns(t, c, where), pc[t] # "writing", where # "writing",
         where \in {"players", "table", "found", "send"} => c.left = MsgLen,
         UNCHANGED <<socket_fd, open, wire>>
  PROVE  LinesHeld'
<1> USE DEF Turns, TypeOK
<1>1. \A u \in Players : u # t => pc'[u] = pc[u] /\ call'[u] = call[u]
  OBVIOUS
<1>2. pc'[t] = where /\ call'[t] = c
  OBVIOUS
<1>3. \A u \in Players : pc'[u] \in {"players", "table", "found", "send"} =>
                           call'[u].left = MsgLen
  BY <1>1, <1>2 DEF LinesHeld
<1>4. \A d \in Connections, u \in Players :
        wire'[d].line = u /\ ~wire'[d].stray /\ ~wire'[d].half =>
          pc'[u] = "writing" /\ call'[u].to = d /\ call'[u].left < MsgLen /\ Target(u)' = d
  BY <1>1, <1>2 DEF LinesHeld, Target
<1>5. \A u \in Players :
        LET to == call'[u].to
        IN  /\ pc'[u] = "writing" /\ call'[u].left < MsgLen
            /\ Target(u)' = to /\ ~wire'[to].stray
            => wire'[to].line = u
  BY <1>1, <1>2 DEF LinesHeld, Target
<1>6. LinesKeptApart'
  BY DEF LinesHeld, LinesKeptApart
<1> QED
  BY <1>3, <1>4, <1>5, <1>6 DEF LinesHeld

\* A part of a line written to its player's own connection goes on the line of
\* nobody else; to another connection, it spoils it.
LEMMA LineWrite ==
  ASSUME TypeOK, MutexesHeld, LinesHeld, NEW t \in Players, NEW n \in 1 .. MsgLen,
         Write(t, n)
  PROVE  LinesHeld'
<1> DEFINE c == Target(t)
           to == call[t].to
           left == call[t].left
           line == IF n = left THEN Nobody ELSE t
           stray == wire[c].stray \/ c # to
           half == wire[c].half /\ wire[c].line # Nobody
           torn == \/ wire[c].line # (IF left = MsgLen THEN Nobody ELSE t)
                   \/ wire[c].torn /\ left # MsgLen
<1>0. torn \in BOOLEAN /\ stray \in BOOLEAN /\ half \in BOOLEAN
  OBVIOUS
<1>1. PICK e : /\ Turns(t, e, IF n = left THEN "written" ELSE "writing")
               /\ e.to = to /\ e.left = left - n
  BY Writes
<1>2. /\ pc[t] = "writing" /\ n <= left /\ UNCHANGED <<socket_fd, open>>
  BY Writes DEF table
<1>3. to \in Players /\ left \in 0 .. MsgLen /\ to \in Connections
  BY Fields, Distinct DEF TypeOK
<1>4. c \in Connections /\ c # Nobody
      /\ wire' = [wire EXCEPT ![c] =
                   [line |-> line, stray |-> stray, half |-> half, torn |-> torn]]
  BY <1>3 DEF Write, Target, TypeOK
<1>5. /\ wire'[c].line = line /\ wire'[c].stray = stray
      /\ wire'[c].half = half /\ wire'[c].torn = torn
      /\ \A d \in Connections : d # c => wire'[d] = wire[d]
  <2> HIDE DEF c, line, stray, half, torn
  <2> QED
    BY <1>4 DEF TypeOK
<1>6. /\ pc'[t] = IF n = left THEN "written" ELSE "writing"
      /\ call'[t].to = to /\ call'[t].left = left - n
      /\ \A u \in Players : u # t => pc'[u] = pc[u] /\ call'[u] = call[u]
  <2> HIDE DEF to, left
  <2> QED
    BY <1>1 DEF Turns, TypeOK
<1>7. \A u \in Players : Target(u)' = Target(u)
  BY <1>2, <1>6 DEF Target
<1>8. \A u \in Players : u # t /\ pc[u] = "writing" => call[u].to # to
  BY <1>2, <1>3 DEF MutexesHeld
<1>9. \A u \in Players : pc'[u] \in {"players", "table", "found", "send"} =>
                           call'[u].left = MsgLen
  BY <1>6 DEF LinesHeld
<1> HIDE DEF c, to, left, line, stray, half, torn
<1>10. ASSUME NEW d \in Connections, NEW u \in Players,
              wire'[d].line = u, ~wire'[d].stray, ~wire'[d].half
       PROVE  pc'[u] = "writing" /\ call'[u].to = d /\ call'[u].left < MsgLen
              /\ Target(u)' = d
  <2>1. CASE d = c
    <3>1. u = t /\ n # left /\ c = to
      BY <1>5, <1>10, <2>1, Distinct DEF line, stray
    <3>2. left - n < MsgLen
      BY <1>3, ConnectionsAssumption
    <3> QED
      BY <1>6, <1>7, <2>1, <3>1, <3>2 DEF c
  <2>2. CASE d # c
    <3>1. pc[u] = "writing" /\ call[u].to = d /\ call[u].left < MsgLen /\ Target(u) = d
      BY <1>5, <1>10, <2>2 DEF LinesHeld
    <3>2. u # t
      BY <2>2, <3>1 DEF c
    <3> QED
      BY <1>6, <1>7, <3>1, <3>2
  <2> QED
    BY <2>1, <2>2
<1>11. ASSUME NEW u \in Players, pc'[u] = "writing", call'[u].left < MsgLen,
              Target(u)' = call'[u].to, ~wire'[call'[u].to].stray
       PROVE  wire'[call'[u].to].line = u
  <2>1. CASE u = t
    BY <1>5, <1>6, <1>7, <1>11, <2>1 DEF c, line
  <2>2. CASE u # t
    <3>1. pc[u] = "writing" /\ call'[u] = call[u] /\ call[u].to # to
      BY <1>6, <1>8, <1>11, <2>2
    <3>2. call[u].to # c
      BY <1>5, <1>11, <3>1 DEF stray
    <3>3. call[u].to \in Connections
      BY Fields, Distinct DEF TypeOK
    <3> QED
      BY <1>5, <1>7, <1>11, <3>1, <3>2, <3>3 DEF LinesHeld
  <2> QED
    BY <2>1, <2>2
<1>12. LinesKeptApart'
  <2>1. ASSUME torn, ~stray, ~half PROVE FALSE
    <3>1. c = to /\ ~wire[c].stray
      BY <2>1 DEF stray
    <3>2. CASE left = MsgLen
      <4>1. wire[c].line # Nobody /\ ~wire[c].half
        BY <2>1, <3>2 DEF torn, half
      <4>2. wire[c].line \in Players
        BY <1>4, <4>1 DEF TypeOK, Wire
      <4>3. PICK u \in Players : wire[c].line = u
        BY <4>2
      <4>4. pc[u] = "writing" /\ call[u].to = c /\ call[u].left < MsgLen
        BY <1>4, <3>1, <4>1, <4>3 DEF LinesHeld
      <4>5. u = t
        BY <1>8, <3>1, <4>4
      <4> QED
        BY <3>2, <4>4, <4>5, ConnectionsAssumption DEF left
    <3>3. CASE left # MsgLen
      <4>1. left < MsgLen
        BY <1>3, <3>3, ConnectionsAssumption
      <4>2. wire[to].line = t
        BY <1>2, <3>1, <4>1 DEF LinesHeld, c, to, left
      <4>3. wire[c].torn /\ ~wire[c].half
        BY <2>1, <3>1, <3>3, <4>2, Distinct DEF torn, half
      <4> QED
        BY <1>4, <3>1, <4>3 DEF LinesHeld, LinesKeptApart
    <3> QED
      BY <3>2, <3>3
  <2>2. torn => half \/ stray
    BY <1>0, <2>1
  <2> QED
    BY <1>0, <1>5, <2>2 DEF LinesHeld, LinesKeptApart
<1>13. \A d \in Connections, u \in Players :
         wire'[d].line = u /\ ~wire'[d].stray /\ ~wire'[d].half =>
           pc'[u] = "writing" /\ call'[u].to = d /\ call'[u].left < MsgLen /\ Target(u)' = d
  BY <1>10
<1>14. \A u \in Players :
         LET k == call'[u].to
         IN  /\ pc'[u] = "writing" /\ call'[u].left < MsgLen
             /\ Target(u)' = k /\ ~wire'[k].stray
             => wire'[k].line = u
  BY <1>11
<1> QED
  BY <1>9, <1>12, <1>13, <1>14 DEF LinesHeld

\* A line given up in the middle is half a line from then on.
LEMMA LineFail ==
  ASSUME TypeOK, LinesHeld, NEW t \in Players, Fail(t)
  PROVE  LinesHeld'
<1>1. pc[t] = "writing" /\ UNCHANGED <<socket_fd, open>>
  BY Fails DEF table
<1>2. PICK c : /\ \/ Turns(t, c, "writing") /\ UNCHANGED wire
                  \/ /\ Turns(t, c, "written")
                     /\ wire' = [d \in Connections |->
                                  [wire[d] EXCEPT !.half = @ \/ wire[d].line = t]]
               /\ c.to = call[t].to /\ c.left = call[t].left
  BY Fails
<1>3. \E where \in {"writing", "written"} : Turns(t, c, where)
  BY <1>2
<1>4. /\ call'[t].to = call[t].to /\ call'[t].left = call[t].left
      /\ pc'[t] \in {"writing", "written"}
      /\ \A u \in Players : u # t => pc'[u] = pc[u] /\ call'[u] = call[u]
  BY <1>2, <1>3 DEF Turns, TypeOK
<1>5. \A u \in Players : Target(u)' = Target(u)
  BY <1>1, <1>4 DEF Target
<1>6. \A d \in Connections :
        /\ wire'[d].line = wire[d].line /\ wire'[d].torn = wire[d].torn
        /\ wire'[d].stray = wire[d].stray
        /\ ~wire'[d].half => ~wire[d].half
        /\ ~wire'[d].half /\ wire[d].line = t => pc'[t] = "writing"
  <2>1. CASE Turns(t, c, "writing") /\ UNCHANGED wire
    BY <2>1 DEF Turns, TypeOK
  <2>2. CASE wire' = [d \in Connections |->
                       [wire[d] EXCEPT !.half = @ \/ wire[d].line = t]]
    <3> SUFFICES ASSUME NEW d \in Connections
                 PROVE  /\ wire'[d].line = wire[d].line /\ wire'[d].torn = wire[d].torn
                        /\ wire'[d].stray = wire[d].stray
                        /\ ~wire'[d].half => ~wire[d].half
                        /\ ~wire'[d].half /\ wire[d].line = t => pc'[t] = "writing"
      OBVIOUS
    <3> DEFINE b == wire[d].half \/ wire[d].line = t
    <3>1. wire'[d] = [wire[d] EXCEPT !.half = b] /\ wire[d] \in Wire
      BY <2>2 DEF TypeOK
    <3>2. b \in BOOLEAN
      OBVIOUS
    <3> HIDE DEF b
    <3>3. /\ wire'[d].line = wire[d].line /\ wire'[d].torn = wire[d].torn
          /\ wire'[d].stray = wire[d].stray /\ wire'[d].half = b
      BY <3>1 DEF Wire
    <3> QED
      BY <3>3 DEF b
  <2> QED
    BY <1>2, <2>1, <2>2
<1>7. \A u \in Players : pc'[u] \in {"players", "table", "found", "send"} =>
                           call'[u].left = MsgLen
  BY <1>4 DEF LinesHeld
<1>8. \A d \in Connections, u \in Players :
        wire'[d].line = u /\ ~wire'[d].stray /\ ~wire'[d].half =>
          pc'[u] = "writing" /\ call'[u].to = d /\ call'[u].left < MsgLen /\ Target(u)' = d
  BY <1>4, <1>5, <1>6 DEF LinesHeld
<1>9. ASSUME NEW u \in Players, pc'[u] = "writing", call'[u].left < MsgLen,
             Target(u)' = call'[u].to, ~wire'[call'[u].to].stray
      PROVE  wire'[call'[u].to].line = u
  <2>1. /\ pc[u] = "writing" /\ call'[u].to = call[u].to /\ call[u].left < MsgLen
        /\ Target(u) = call[u].to /\ call[u].to \in Connections
    BY <1>1, <1>4, <1>5, <1>9, Fields, Distinct DEF TypeOK
  <2> QED
    BY <1>6, <1>9, <2>1 DEF LinesHeld
<1>10. LinesKeptApart'
  <2>1. ASSUME NEW d \in Connections, wire'[d].torn
        PROVE  wire'[d].half \/ wire'[d].stray
    BY <1>6, <2>1 DEF LinesHeld, LinesKeptApart
  <2> QED
    BY <2>1 DEF LinesKeptApart
<1>11. \A u \in Players :
         LET k == call'[u].to
         IN  /\ pc'[u] = "writing" /\ call'[u].left < MsgLen
             /\ Target(u)' = k /\ ~wire'[k].stray
             => wire'[k].line = u
  BY <1>9
<1> QED
  BY <1>7, <1>8, <1>10, <1>11 DEF LinesHeld

\* A connection that is closed is forgotten with its lines; nobody is taken to
\* write to it after that.
LEMMA LineClose ==
  ASSUME TypeOK, LinesHeld, NEW d \in Descriptors, open[d] \in Connections,
         close_connection(d), UNCHANGED socket_fd,
         \A p \in Players : open[d] = p => socket_fd[p] = d,
         \/ UNCHANGED <<pc, call>>
         \/ \E t \in Players, c \in Calls :
              /\ pc[t] = "close" /\ pc' = [pc EXCEPT ![t] = "players"]
              /\ call' = [call EXCEPT ![t] = c] /\ c.left = MsgLen
  PROVE  LinesHeld'
<1>1. \A u \in Players : pc'[u] = "writing" <=> pc[u] = "writing"
  BY DEF TypeOK
<1>2. \A u \in Players : pc[u] = "writing" => call'[u] = call[u]
  BY DEF TypeOK
<1>3. \A u \in Players : pc'[u] \in {"players", "table", "found", "send"} =>
                           call'[u].left = MsgLen
  BY DEF TypeOK, LinesHeld
<1>4. /\ open' = [open EXCEPT ![d] = Nobody]
      /\ \A c \in Connections : wire'[c] = IF c = open[d] THEN Silent ELSE wire[c]
  BY DEF close_connection
<1>5. \A u \in Players : pc[u] = "writing" /\ Target(u) # open[d] => Target(u)' = Target(u)
  BY <1>2, <1>4, Fields DEF Target, TypeOK
<1>6. \A u \in Players : pc[u] = "writing" /\ Target(u)' \in Connections
                          => Target(u) = Target(u)' /\ socket_fd[call[u].to] # d
  BY <1>2, <1>4, Fields, Distinct DEF Target, TypeOK
<1>7. Silent.line = Nobody /\ Silent.torn = FALSE
  BY DEF Silent
<1>8. \A c \in Connections, u \in Players :
        wire'[c].line = u /\ ~wire'[c].stray /\ ~wire'[c].half =>
          pc'[u] = "writing" /\ call'[u].to = c /\ call'[u].left < MsgLen /\ Target(u)' = c
  <2> SUFFICES ASSUME NEW c \in Connections, NEW u \in Players,
                      wire'[c].line = u, ~wire'[c].stray, ~wire'[c].half
               PROVE  /\ pc'[u] = "writing" /\ call'[u].to = c
                      /\ call'[u].left < MsgLen /\ Target(u)' = c
    OBVIOUS
  <2>1. c # open[d] /\ wire'[c] = wire[c]
    BY <1>4, <1>7, Distinct
  <2>2. pc[u] = "writing" /\ call[u].to = c /\ call[u].left < MsgLen /\ Target(u) = c
    BY <2>1 DEF LinesHeld
  <2> QED
    BY <1>1, <1>2, <1>5, <2>1, <2>2
<1>9. \A u \in Players :
        LET k == call'[u].to
        IN  /\ pc'[u] = "writing" /\ call'[u].left < MsgLen
            /\ Target(u)' = k /\ ~wire'[k].stray
            => wire'[k].line = u
  <2> SUFFICES ASSUME NEW u \in Players, pc'[u] = "writing", call'[u].left < MsgLen,
                      Target(u)' = call'[u].to, ~wire'[call'[u].to].stray
               PROVE  wire'[call'[u].to].line = u
    OBVIOUS
  <2>1. pc[u] = "writing" /\ call'[u] = call[u]
    BY <1>1, <1>2
  <2>2. call[u].to \in Players /\ call[u].to \in Connections
    BY Fields, Distinct DEF TypeOK
  <2>3. Target(u) = call[u].to /\ socket_fd[call[u].to] # d
    BY <1>6, <2>1, <2>2
  <2>4. call[u].to # open[d]
    BY <2>2, <2>3
  <2> QED
    BY <1>4, <2>1, <2>2, <2>3, <2>4 DEF LinesHeld
<1>10. LinesKeptApart'
  <2>1. ASSUME NEW c \in Connections, wire'[c].torn
        PROVE  wire'[c].half \/ wire'[c].stray
    BY <1>4, <1>7, <2>1 DEF LinesHeld, LinesKeptApart
  <2> QED
    BY <2>1 DEF LinesKeptApart
<1> QED
  BY <1>3, <1>8, <1>9, <1>10 DEF LinesHeld

\* Every step keeps the lines on whole connections with their writers.
LEMMA LineStep ==
  TypeOK /\ Counted /\ MutexesHeld /\ DescriptorsHeld /\ LinesHeld /\ [Next]_vars
    => LinesHeld'
<1> SUFFICES ASSUME TypeOK, Counted, MutexesHeld, DescriptorsHeld, LinesHeld, [Next]_vars
             PROVE  LinesHeld'
  OBVIOUS
<1>1. CASE Accept
  <2>1. PICK d \in Descriptors : open[d] = Nobody /\ open' = [open EXCEPT ![d] = accepting.conn]
    BY <1>1 DEF Accept, LowestFree
  <2>2. /\ accepting.pc = "accept" /\ UNCHANGED <<wire, socket_fd, pc, call>>
    BY <1>1 DEF Accept, table
  <2>3. \A t \in Players : Target(t) # Nobody => Target(t)' = Target(t)
    BY <2>1, <2>2 DEF Target, TypeOK
  <2>4. \A t \in Players : pc[t] = "writing" /\ Target(t)' = call[t].to
                            => Target(t) = call[t].to
    <3> SUFFICES ASSUME NEW t \in Players, pc[t] = "writing", Target(t)' = call[t].to
                 PROVE  Target(t) = call[t].to
      OBVIOUS
    <3>1. call[t].to \in Players /\ socket_fd[call[t].to] \in Descriptors
      BY Fields DEF TypeOK
    <3>2. call[t].to < players_count
      BY DEF Counted, Calling
    <3>3. players_count <= accepting.conn
      BY <2>2, ConnectionsAssumption DEF Counted, TypeOK
    <3>4. call[t].to # accepting.conn
      BY <3>1, <3>2, <3>3, Distinct DEF TypeOK
    <3> QED
      BY <2>1, <2>2, <3>1, <3>4 DEF Target, TypeOK
  <2>5. Nobody \notin Connections
    BY Distinct
  <2> QED
    BY <2>2, <2>3, <2>4, <2>5 DEF LinesHeld, LinesKeptApart
<1>2. CASE AcceptLock
  BY <1>2 DEF AcceptLock, LinesHeld,
     LinesKeptApart, Target, TypeOK, vars, mutexes, table, kernel
<1>3. CASE Refuse
  <2>1. /\ accepting.pc = "table" /\ TableFull /\ close_connection(accepting.fd)
        /\ UNCHANGED <<socket_fd, pc, call>>
    BY <1>3 DEF Refuse, table
  <2>2. open[accepting.fd] = accepting.conn /\ accepting.conn \in Connections
        /\ accepting.conn \notin Players
    <3>1. accepting.conn < MaxConnections /\ accepting.conn >= MAX_PLAYERS
      BY <2>1, ConnectionsAssumption DEF Counted, TableFull, TypeOK
    <3> QED
      BY <2>1, <3>1, Distinct, ConnectionsAssumption DEF DescriptorsHeld, TypeOK
  <2> QED
    BY <2>1, <2>2, LineClose DEF TypeOK
<1>4. CASE Admit
  <2>1. /\ socket_fd' = [socket_fd EXCEPT ![players_count] = accepting.fd]
        /\ UNCHANGED <<open, wire, pc, call>>
    BY <1>4 DEF Admit, kernel
  <2>2. \A t \in Players : pc[t] = "writing" => Target(t)' = Target(t)
    <3> SUFFICES ASSUME NEW t \in Players, pc[t] = "writing" PROVE Target(t)' = Target(t)
      OBVIOUS
    <3>1. call[t].to \in Players /\ call[t].to < players_count
      BY Fields DEF Counted, Calling, TypeOK
    <3>2. call[t].to # players_count
      BY <3>1, Distinct DEF TypeOK
    <3> QED
      BY <2>1, <3>1, <3>2 DEF Target, TypeOK
  <2> QED
    BY <2>1, <2>2 DEF LinesHeld, LinesKeptApart
<1>5. CASE Spawn
  <2>1. UNCHANGED <<socket_fd, open, wire, call>>
        /\ pc' = [pc EXCEPT ![accepting.conn] = "loop"]
    BY <1>5 DEF Spawn, table, kernel
  <2>2. pc[accepting.conn] # "writing" \/ accepting.conn \notin Players
    BY <1>5 DEF Spawn, Counted, TypeOK
  <2>3. \A u \in Players : /\ pc'[u] = "writing" <=> pc[u] = "writing"
                           /\ pc'[u] = pc[u] \/ pc'[u] = "loop"
    BY <2>1, <2>2 DEF TypeOK
  <2>4. \A u \in Players : Target(u)' = Target(u)
    BY <2>1 DEF Target
  <2> QED
    BY <2>1, <2>3, <2>4 DEF LinesHeld, LinesKeptApart
<1>6. ASSUME NEW t \in Players, Request(t) PROVE LinesHeld'
  BY <1>6 DEF Request, Begin, Call, Go, LinesHeld,
     LinesKeptApart, Target, TypeOK, vars, mutexes, table, kernel
<1>7. ASSUME NEW t \in Players, Leave(t) PROVE LinesHeld'
  <2>1. Turns(t, call[t], "matches") /\ pc[t] = "loop"
    BY <1>7 DEF Leave, Go, Turns, TypeOK
  <2>2. UNCHANGED <<socket_fd, open, wire>>
    BY <1>7 DEF Leave, table, kernel
  <2> QED
    BY <2>1, <2>2, LineTurn
<1>8. ASSUME NEW t \in Players, LockMatches(t) PROVE LinesHeld'
  BY <1>8 DEF LockMatches, Go, LinesHeld,
     LinesKeptApart, Target, TypeOK, vars, mutexes, table, kernel
<1>9. ASSUME NEW t \in Players, LockPlayers(t) PROVE LinesHeld'
  BY <1>9 DEF LockPlayers, Go, LinesHeld,
     LinesKeptApart, Target, TypeOK, vars, mutexes, table, kernel
<1>10. ASSUME NEW t \in Players, LockSend(t) PROVE LinesHeld'
  <2>1. /\ pc[t] = "send" /\ UNCHANGED <<socket_fd, open, wire, call>>
        /\ pc' = [pc EXCEPT ![t] = "writing"]
    BY <1>10 DEF LockSend, Go, table, kernel
  <2> QED
    BY <2>1, Fields DEF LinesHeld, LinesKeptApart, Target, TypeOK
<1>11. ASSUME NEW t \in Players, HandlerCalls(t) PROVE LinesHeld'
  BY <1>11 DEF HandlerCalls, Begin, Call, Go, LinesHeld,
     LinesKeptApart, Target, TypeOK, vars, mutexes, table, kernel
<1>12. ASSUME NEW t \in Players, UnlockMatches(t) PROVE LinesHeld'
  BY <1>12 DEF UnlockMatches, AfterHandler, Go, LinesHeld,
     LinesKeptApart, Target, TypeOK, vars, mutexes, table, kernel
<1>13. ASSUME NEW t \in Players, AtTable(t) PROVE LinesHeld'
  <2>1. /\ pc[t] = "table" /\ TableStep(t) /\ UNCHANGED <<socket_fd, open, wire>>
    BY <1>13, TableUsed DEF kernel
  <2>2. CASE UNCHANGED call /\ pc' = [pc EXCEPT ![t] = "found"]
    <3>1. Turns(t, call[t], "found") /\ call[t].left = MsgLen
      BY <2>1, <2>2 DEF Turns, TypeOK, LinesHeld
    <3> QED
      BY <2>1, <3>1, LineTurn
  <2>3. ASSUME NEW c, SendsNext(t, c) PROVE LinesHeld'
    BY <2>1, <2>3, LineTurn DEF SendsNext
  <2>4. ASSUME NEW c, GoesOn(t, c) PROVE LinesHeld'
    BY <2>1, <2>4, LineTurn DEF GoesOn
  <2>5. ASSUME NEW c, Turns(t, c, "ended") PROVE LinesHeld'
    BY <2>1, <2>5, LineTurn
  <2> QED
    BY <2>1, <2>2, <2>3, <2>4, <2>5 DEF TableStep
<1>14. ASSUME NEW t \in Players, LookAtState(t) PROVE LinesHeld'
  <2>1. pc[t] = "found" /\ UNCHANGED <<socket_fd, open, wire>>
    BY <1>14 DEF LookAtState, table, kernel
  <2>2. CASE Go(t, "send") /\ UNCHANGED call
    <3>1. Turns(t, call[t], "send") /\ call[t].left = MsgLen
      BY <2>1, <2>2 DEF Go, Turns, TypeOK, LinesHeld
    <3> QED
      BY <2>1, <3>1, LineTurn
  <2>3. CASE Return(t)
    <3>1. PICK c : SendsNext(t, c) \/ GoesOn(t, c)
      BY <2>3, Returns
    <3> QED
      BY <2>1, <3>1, LineTurn DEF SendsNext, GoesOn
  <2> QED
    BY <1>14, <2>2, <2>3 DEF LookAtState
<1>15. ASSUME NEW t \in Players, NEW n \in 1 .. MsgLen, Write(t, n) PROVE LinesHeld'
  BY <1>15, LineWrite
<1>16. ASSUME NEW t \in Players, Fail(t) PROVE LinesHeld'
  BY <1>16, LineFail
<1>17. ASSUME NEW t \in Players, BrokenPipe(t) PROVE LinesHeld'
  BY <1>17 DEF BrokenPipe, LinesHeld,
     LinesKeptApart, Target, TypeOK, vars, mutexes, table, kernel
<1>18. ASSUME NEW t \in Players, UnlockSend(t) PROVE LinesHeld'
  <2>1. pc[t] = "written" /\ UNCHANGED <<socket_fd, open, wire>>
    BY <1>18 DEF UnlockSend, table, kernel
  <2>2. PICK c : SendsNext(t, c) \/ GoesOn(t, c)
    BY <1>18, Returns DEF UnlockSend
  <2> QED
    BY <2>1, <2>2, LineTurn DEF SendsNext, GoesOn
<1>19. ASSUME NEW t \in Players, Close(t) PROVE LinesHeld'
  <2>1. /\ pc[t] = "close" /\ close_connection(socket_fd[t])
        /\ Begin(t, Call("mark", t, {})) /\ UNCHANGED socket_fd
    BY <1>19 DEF Close, table
  <2>2. open[socket_fd[t]] = t
    BY <2>1 DEF MutexesHeld, DescriptorsHeld, DescriptorIsOwn
  <2>3. /\ Call("mark", t, {}) \in Calls /\ Call("mark", t, {}).left = MsgLen
    BY NewCall DEF Ops
  <2>4. /\ pc' = [pc EXCEPT ![t] = "players"]
        /\ call' = [call EXCEPT ![t] = Call("mark", t, {})]
    BY <2>1 DEF Begin, Go
  <2>5. socket_fd[t] \in Descriptors /\ t \in Connections
        /\ \A p \in Players : open[socket_fd[t]] = p => socket_fd[p] = socket_fd[t]
    BY <2>2, Distinct DEF TypeOK
  <2> QED
    BY <2>1, <2>2, <2>3, <2>4, <2>5, LineClose
<1>20. ASSUME NEW c \in Connections, PeerLeaves(c) PROVE LinesHeld'
  BY <1>20 DEF PeerLeaves, LinesHeld,
     LinesKeptApart, Target, TypeOK, vars, mutexes, table, kernel
<1>21. CASE UNCHANGED vars
  BY <1>21 DEF Quiet, LinesHeld,
     LinesKeptApart, Target, TypeOK, vars, mutexes, table, kernel
<1> QED
  BY <1>1, <1>2, <1>3, <1>4, <1>5, <1>6, <1>7, <1>8, <1>9, <1>10, <1>11, <1>12, <1>13,
     <1>14, <1>15, <1>16, <1>17, <1>18, <1>19, <1>20, <1>21
     DEF Next, Quiet, Acceptor, Takes, Runs, Sends

-----------------------------------------------------------------------------
\* The server starts with all of it.
LEMMA Starts == Init => Inv
<1> SUFFICES ASSUME Init PROVE Inv
  OBVIOUS
<1>1. TypeOK
  <2>1. \A p \in Players : Call("none", p, {}) \in Calls
    BY NewCall DEF Ops
  <2>2. Silent \in Wire /\ 0 \in 0 .. MAX_PLAYERS /\ 0 \in 0 .. MaxConnections
        /\ 0 \in 0 .. MaxCalls
    BY ConnectionsAssumption DEF Silent, Wire
  <2> QED
    BY <2>1, <2>2, Distinct DEF Init, TypeOK, PlayerStates, Pcs
<1>2. MutexesHeld
  BY Distinct DEF Init, MutexesHeld, Call
<1>3. Counted
  BY ConnectionsAssumption DEF Init, Counted, Calling
<1>4. DescriptorsHeld
  BY DEF Init, DescriptorsHeld, DescriptorIsOwn
<1>5. LinesHeld
  BY Distinct DEF Init, LinesHeld, LinesKeptApart, Silent
<1> QED
  BY <1>1, <1>2, <1>3, <1>4, <1>5 DEF Inv

\* Inv is inductive, and so holds in every state of the program.
THEOREM Invariant == Spec => []Inv
<1>1. Inv /\ [Next]_vars => Inv'
  BY TypeStep, MutexStep, CountStep, DescriptorStep, LineStep DEF Inv
<1> QED
  BY <1>1, Starts, PTL DEF Spec

\* Every variable keeps its type; in particular the numbers of players and of
\* connections main.c counts stay within the table and the bound.
THEOREM TypesHeld == Spec => []TypeOK
<1>1. Inv => TypeOK
  BY DEF Inv
<1> QED
  BY <1>1, Invariant, PTL

\* Whoever is in a send or at the table waits for nobody but the holder of a
\* mutex further on in the order matches, players, send.
LEMMA NobodyWaitsInACircle == TypeOK /\ MutexesHeld => NoCircularWait
<1> SUFFICES ASSUME TypeOK, MutexesHeld, NEW S \in (SUBSET Threads) \ {{}}
             PROVE  \E t \in S : \A u \in S : ~WaitsFor(t, u)
  BY DEF NoCircularWait
<1> USE Distinct
<1>1. \A t \in Players : \A u \in Threads :
        pc[t] \notin {"matches", "players", "send"} => ~WaitsFor(t, u)
  BY DEF WaitsFor
<1>2. \A u \in Threads : accepting.pc # "players" => ~WaitsFor(Main, u)
  BY DEF WaitsFor
<1>3. CASE \E t \in S : t # Main /\ pc[t] \notin {"matches", "players", "send"}
  BY <1>1, <1>3 DEF Threads
<1>4. CASE Main \in S /\ accepting.pc # "players"
  BY <1>2, <1>4
<1>5. CASE /\ \A t \in S : t # Main => pc[t] \in {"matches", "players", "send"}
           /\ Main \in S => accepting.pc = "players"
  \* Nobody in S holds players_mutex or a send mutex.
  <2>1. players_mutex \notin S
    BY <1>5 DEF MutexesHeld, TypeOK, Threads
  <2>2. ASSUME NEW p \in Players, send_mutex[p] \in S PROVE FALSE
    <3>1. PICK t \in S : send_mutex[p] = t
      BY <2>2
    <3>2. t \in Players
      BY <3>1 DEF TypeOK, Threads
    <3>3. pc[t] \in {"writing", "written"}
      BY <3>1, <3>2 DEF MutexesHeld
    <3> QED
      BY <1>5, <3>2, <3>3
  <2>3. CASE \E t \in S : t = Main \/ pc[t] \in {"players", "send"}
    <3>1. PICK t \in S : t = Main \/ pc[t] \in {"players", "send"}
      BY <2>3
    <3>2. ASSUME NEW u \in S, WaitsFor(t, u) PROVE FALSE
      <4>1. t = Main \/ (t \in Players /\ call[t].to \in Players)
        <5>1. t = Main \/ t \in Players
          BY DEF Threads
        <5>2. t \in Players => call[t] \in Calls
          BY DEF TypeOK
        <5> QED
          BY <5>1, <5>2, Fields
      <4> QED
        BY <2>1, <2>2, <3>1, <3>2, <4>1 DEF WaitsFor
    <3> QED
      BY <3>1, <3>2
  <2>4. CASE \A t \in S : t # Main /\ pc[t] = "matches"
    <3>1. matches_mutex \notin S
      BY <2>4 DEF MutexesHeld, TypeOK, Threads, Handling, Calling
    <3>2. PICK t \in S : TRUE
      OBVIOUS
    <3>3. \A u \in S : ~WaitsFor(t, u)
      BY <2>4, <3>1, <3>2 DEF WaitsFor
    <3> QED
      BY <3>2, <3>3
  <2> QED
    BY <1>5, <2>3, <2>4
<1> QED
  BY <1>3, <1>4, <1>5

\* No threads wait for each other in a circle, whatever the handlers call: the
\* order in which the server takes its mutexes (main.c:87) keeps it from that.
THEOREM NoCircle == Spec => []NoCircularWait
<1>1. Inv => NoCircularWait
  BY NobodyWaitsInACircle DEF Inv
<1> QED
  BY <1>1, Invariant, PTL

\* The descriptor of a player who is served leads to his own connection, however
\* often the kernel gives descriptors out again (main.c:1108, 1148).
THEOREM OwnDescriptor == Spec => []DescriptorIsOwn
<1>1. Inv => DescriptorIsOwn
  BY DEF Inv, DescriptorsHeld
<1> QED
  BY <1>1, Invariant, PTL

\* A line that runs into another has half a line that send_message gave up in it or
\* before it, or is on a connection a send to another player strayed to
\* (network.c:137); the line after it is whole again.
THEOREM KeptApart == Spec => []LinesKeptApart
<1>1. Inv => LinesKeptApart
  BY DEF Inv, LinesHeld
<1> QED
  BY <1>1, Invariant, PTL
=============================================================================
